---------------------------- MODULE Spec2Model ----------------------------
(***************************************************************************)
(* Model of the carbon benchmark: the load driver (LoadTester), the        *)
(* resource monitor (ContainerMonitor), run_test, run_comparison_suite and *)
(* its result files (scripts/test_carbon_comprehensive.py), and the loader *)
(* and reliability helpers of scripts/analyze_results.py.                  *)
(*                                                                         *)
(* Units.  Durations are integers in milliseconds.  Response times are     *)
(* integers in quarters of the rounding step of round(x, 2), so that the   *)
(* rounding the code applies is a real operation of the model.             *)
(***************************************************************************)
EXTENDS Integers, Sequences, FiniteSets, TLC

VARIABLES
    \* ---- environment of one exploration (fixed by Init)
    env,            \* [latencies, durations]: what a request or a load phase may take
    budget,         \* how many more failures of each kind the environment may inject
    \* ---- run_comparison_suite (test_carbon_comprehensive.py:721-794)
    suite_args,     \* [frameworks, loads, endpoints, num_runs, min_duration]
    configs,        \* the list built at lines 739-744
    run_id,         \* the round, 1..num_runs
    cfg_idx,        \* position in configs of the configuration being executed
    current_test,
    all_results,
    spc,            \* "build" | "loop" | "in_test" | "combine" | "done"
    calls,          \* history: the (configuration, round) of every run_test call, in order
    \* ---- the result directory and the clock that stamps file names
    files,
    now,
    \* ---- run_test (lines 376-507)
    pc,             \* position in run_test
    rt,             \* its arguments
    tracker_on,     \* the EmissionsTracker is between start() and stop()
    test_duration, actual_duration, padding_seconds, total_tracked_duration,
    energy_metadata, reliability, container_metrics,
    record,         \* the compiled results dict
    ret,            \* the value run_test returned: "pending" | "None" | "record"
    trace,          \* history: the steps this execution has taken, in order
    saved,          \* history: number of result files this execution wrote
    \* ---- LoadTester (lines 46-140)
    results,        \* self.results: [success, errors, response_times]
    stats,          \* value returned by get_statistics, NoStats before the call
    mode,           \* "none" | "sequential" | "concurrent"
    i,              \* run_sequential: loop index; run_concurrent: completed
    max_workers,
    queued,         \* futures submitted and not yet picked up by a worker
    running,        \* requests in flight
    done,           \* finished futures as_completed has not yielded yet, by outcome
    issued,         \* history: number of requests.get calls of the load phase
    result,         \* the last make_request result the loop handled
    \* ---- ContainerMonitor (lines 143-267)
    mon_running,    \* self._running
    thread,         \* the polling thread: "none" | "loop" | "query" | "sleep_test"
                    \*                     | "sleeping" | "dead"
    cpu_samples, mem_samples, mon_error,
    failed_queries, \* the kinds of failure the docker queries of this monitor met
    query_elapsed,  \* tenths of a second the current docker query has run
    elapsed,        \* _poll's sleep counter, in sleeps of 0.1 s
    slept,          \* the current time.sleep(0.1) has lasted its 0.1 s
    join_elapsed,   \* tenths of a second the last stop() has waited in join
    late_samples,   \* history: samples appended after stop() returned
    \* ---- reliability classification (pure functions)
    cls_record,     \* a persisted result dict handed to _extract_reliability
    cls_duration,   \* test_duration handed to extract_energy_metadata (ms)
    cls_out,        \* [tracker, fallback]: the two labels, NoLabels before the call
    \* ---- which pure function the enumeration specifications apply
    fn_pc,
    \* ---- the statistics engine of analyze_results.py (pure functions)
    an_in,          \* the arguments of the call
    an_out,         \* what the call returned, NoOutput before it
    \* ---- run_startup_benchmark / measure_startup_time
    \*      (test_carbon_comprehensive.py:588-694)
    startup_args,   \* [frameworks, num_runs, timeout]
    startup_pc,     \* "none" | "round" | "stop" | "start" | "poll_test" | "probe"
                    \*        | "sleep" | "returned" | "save" | "done"
    startup_run_id, \* the round, 1..num_runs
    startup_idx,    \* position in frameworks of the subject being measured
    startup_clock,  \* time.time() - start_time, in half seconds
    probe_began,    \* history: the clock when the last health probe was sent
    startup_ret,    \* the dict the last measure_startup_time call returned
    startup_results,\* all_results of run_startup_benchmark
    startup_calls,  \* history: the (subject, round) of every measure_startup_time call
    \* ---- UniversalCarbonTest._python_load_test / compile_results
    \*      (universal_carbon_test.py:162-240, 284-313)
    uct_pc,         \* "none" | "workers" | "join" | "aggregate" | "returned" | "compiled"
    time_left,      \* whole request slots before end_time
    workers,        \* per thread: its local_results and whether it has finished
    results_queue,
    attempts,       \* history: requests.get calls made by the workers, by outcome
    perf_data,      \* what _python_load_test returned
    performance     \* the "performance" section compile_results built

envvars   == <<env, budget>>
suitevars == <<suite_args, configs, run_id, cfg_idx, current_test, all_results, spc, calls>>
fsvars    == <<files, now>>
rtvars    == <<pc, rt, tracker_on, test_duration, actual_duration, padding_seconds,
               total_tracked_duration, energy_metadata, reliability, container_metrics,
               record, ret, trace, saved>>
loadvars  == <<results, mode, i, max_workers, queued, running, done, issued, result>>
monvars   == <<mon_running, thread, cpu_samples, mem_samples, mon_error,
               failed_queries>>
clockvars == <<query_elapsed, elapsed, slept, join_elapsed, late_samples>>
fnvars    == <<stats, cls_record, cls_duration, cls_out, fn_pc, an_in, an_out>>

startvars == <<startup_args, startup_pc, startup_run_id, startup_idx, startup_clock,
               probe_began, startup_ret, startup_results, startup_calls>>
uctvars   == <<uct_pc, time_left, workers, results_queue, attempts, perf_data,
               performance>>

vars == <<envvars, suitevars, fsvars, rtvars, loadvars, monvars, clockvars, fnvars,
          startvars, uctvars>>

-----------------------------------------------------------------------------
(* Bounds of the exploration *)

MaxBacklog == 2       \* finished futures waiting for the as_completed loop
MaxErrors == 3        \* failing requests in one load phase (load driver runs)
MaxPolls == 2         \* docker queries one monitor completes
MaxDurMs == 16000     \* durations handed to the classifiers: 0..MaxDurMs
MaxTime == 6          \* response times of the statistics runs: 0..MaxTime
MaxBlock == 10        \* longest run of equal response times in a sample
MaxTail == 2          \* length of the last run of a sample
MaxLoadSize == 1100   \* load sizes on which the dispatch rule is evaluated
MaxFrameworks == 2    \* frameworks, loads, endpoints and rounds of a suite
MaxLoads == 2
MaxEndpoints == 2
MaxRuns == 2
MaxTests == 4         \* run_test calls of a suite: configurations x rounds
MaxProbeFailures == 2 \* failed health probes in a suite

-----------------------------------------------------------------------------
(* Helpers *)

Min(a, b) == IF a <= b THEN a ELSE b

\* sum of a list of numbers, by halves
RECURSIVE SeqSum(_)
SeqSum(s) ==
    IF Len(s) = 0 THEN 0
    ELSE IF Len(s) = 1 THEN s[1]
    ELSE LET h == Len(s) \div 2
         IN  SeqSum(SubSeq(s, 1, h)) + SeqSum(SubSeq(s, h + 1, Len(s)))

\* n copies of v
RECURSIVE Repeat(_, _)
Repeat(v, n) == IF n = 0 THEN <<>> ELSE <<v>> \o Repeat(v, n - 1)

\* Python's None for a numeric field, and for a string field
NoneNum == -1
NoneStr == "None"

-----------------------------------------------------------------------------
(* Reliability classification *)

\* RELIABILITY_THRESHOLDS, in milliseconds
RELIABLE_MS == 15000
MARGINAL_MS == 5000

\* analyze_results.py keeps its own copy of the thresholds
AN_RELIABLE_MS == 15000
AN_MARGINAL_MS == 5000

ClassifyDuration_strict(dur_ms) ==
    IF dur_ms > RELIABLE_MS THEN "reliable"
    ELSE IF dur_ms > MARGINAL_MS THEN "marginal"
    ELSE "unreliable"

\* extract_energy_metadata, the reliability classification
ClassifyDuration(dur_ms) ==
    IF dur_ms >= RELIABLE_MS THEN "reliable"
    ELSE IF dur_ms >= MARGINAL_MS THEN "marginal"
    ELSE "unreliable"

\* Python truthiness of an optional number (None and 0 are falsy) and of an
\* optional string (None and "" are falsy)
TruthyNum(x) == x # NoneNum /\ x # 0
TruthyStr(x) == x # NoneStr /\ x # ""

\* `a or b` on optional numbers
OrNum(a, b) == IF TruthyNum(a) THEN a ELSE b

\* _extract_reliability, the duration fallback (dur = total or duration)
DurationFallback(res) ==
    LET dur == OrNum(res.total_tracked_duration_seconds, res.duration_seconds)
    IN  IF dur # NoneNum
        THEN IF dur >= AN_RELIABLE_MS THEN "reliable"
             ELSE IF dur >= AN_MARGINAL_MS THEN "marginal"
             ELSE "unreliable"
        ELSE "unknown"

\* _extract_reliability
ExtractReliability(res) ==
    IF TruthyStr(res.measurement_reliability)
    THEN res.measurement_reliability
    ELSE IF TruthyStr(res.energy_metadata_reliability)
         THEN res.energy_metadata_reliability
         ELSE DurationFallback(res)

-----------------------------------------------------------------------------
(* LoadTester.get_statistics *)

\* round(x, 2) moves x to the nearest multiple of this many units
ROUND_QUANTUM == 4

\* round(): num/den moved to the nearest multiple of quantum, ties to the even one
RoundTo(num, den, quantum) ==
    LET step == den * quantum
        q    == num \div step
        rem  == num - q * step
    IN  IF 2 * rem < step THEN q * quantum
        ELSE IF 2 * rem > step THEN (q + 1) * quantum
        ELSE IF q % 2 = 0 THEN q * quantum ELSE (q + 1) * quantum

\* round(num/den, 2) of a response time
RoundRat(num, den) == RoundTo(num, den, ROUND_QUANTUM)

\* round(seconds, 2) of a duration kept in milliseconds
RoundSeconds(ms) == RoundTo(ms, 1, 10)

Round2(x) == RoundRat(x, 1)

\* sorted(times): the ascending arrangement of the sample.  Position r holds the
\* value that has fewer than r elements below it and at least r elements up to it.
Sorted(s) ==
    [r \in 1..Len(s) |->
        CHOOSE x \in {s[j] : j \in 1..Len(s)} :
            /\ Cardinality({j \in 1..Len(s) : s[j] < x}) < r
            /\ Cardinality({j \in 1..Len(s) : s[j] <= x}) >= r]

SeqMin(s) == CHOOSE x \in {s[k] : k \in 1..Len(s)} : \A j \in 1..Len(s) : x <= s[j]
SeqMax(s) == CHOOSE x \in {s[k] : k \in 1..Len(s)} : \A j \in 1..Len(s) : x >= s[j]

\* int(len(times_sorted) * 0.95), a 0-based index (pct is 95 or 99)
PctIndex(len, pct) == (len * pct) \div 100

\* round(statistics.median(times), 2): the middle element, or the mean of the
\* two middle elements of the sorted sample
MedianRounded(times) ==
    LET ts == Sorted(times)
        n  == Len(ts)
    IN  IF n % 2 = 1 THEN Round2(ts[(n \div 2) + 1])
        ELSE RoundRat(ts[n \div 2] + ts[(n \div 2) + 1], 2)

NoStats ==
    [min_ms |-> NoneNum, max_ms |-> NoneNum, mean_ms |-> NoneNum,
     median_ms |-> NoneNum, p95_ms |-> NoneNum, p99_ms |-> NoneNum]

GetStatistics_unsorted(times) ==
    IF times = <<>>
    THEN [min_ms |-> 0, max_ms |-> 0, mean_ms |-> 0,
          median_ms |-> 0, p95_ms |-> 0, p99_ms |-> 0]
    ELSE [min_ms    |-> Round2(SeqMin(times)),
          max_ms    |-> Round2(SeqMax(times)),
          mean_ms   |-> RoundRat(SeqSum(times), Len(times)),
          median_ms |-> MedianRounded(times),
          p95_ms    |-> Round2(times[PctIndex(Len(times), 95) + 1]),
          p99_ms    |-> Round2(times[PctIndex(Len(times), 99) + 1])]

\* LoadTester.get_statistics
GetStatistics(times) ==
    IF times = <<>>
    THEN [min_ms |-> 0, max_ms |-> 0, mean_ms |-> 0,
          median_ms |-> 0, p95_ms |-> 0, p99_ms |-> 0]
    ELSE LET times_sorted == Sorted(times)
         IN  [min_ms    |-> Round2(SeqMin(times)),
              max_ms    |-> Round2(SeqMax(times)),
              mean_ms   |-> RoundRat(SeqSum(times), Len(times)),
              median_ms |-> MedianRounded(times),
              p95_ms    |-> Round2(times_sorted[PctIndex(Len(times_sorted), 95) + 1]),
              p99_ms    |-> Round2(times_sorted[PctIndex(Len(times_sorted), 99) + 1])]

-----------------------------------------------------------------------------
(* The result directory *)

\* A file name is its "_"-separated tokens; the extension is kept apart.
\* datetime.now().strftime("%Y%m%d_%H%M%S"): a date token and a time token
Timestamp(t) == <<"20260101", ToString(t)>>

\* basename.startswith(prefix)
StartsWith(name, prefix) ==
    /\ Len(name) >= Len(prefix)
    /\ SubSeq(name, 1, Len(prefix)) = prefix

\* "comparison_suite_"
SUITE_PREFIX == <<"comparison", "suite">>

\* open(filename, 'w'): the file is created, or replaced when the name exists
WriteFile(dir, f) == {g \in dir : ~(g.name = f.name /\ g.ext = f.ext)} \cup {f}

\* test_id = f"{framework_key}_{endpoint_name}_{load_size}"
TestId(framework_key, endpoint_name, load_size) ==
    <<framework_key, endpoint_name, ToString(load_size)>>

\* save_results: f"test_results/{test_id}{run_suffix}_{timestamp}.json"
SaveResultsName(test_id, rid, t) ==
    test_id \o (IF rid # NoneNum THEN <<"run" \o ToString(rid)>> ELSE <<>>) \o Timestamp(t)

\* run_comparison_suite: f"test_results/comparison_suite_{timestamp}.json"
CombinedName(t) == SUITE_PREFIX \o Timestamp(t)

LoadOneFile_noskip(acc, f) ==
    IF f.is_list THEN acc \o f.data ELSE Append(acc, f.data[1])

\* load_test_results, the body of the loop over the globbed files
LoadOneFile(acc, f) ==
    IF StartsWith(f.name, SUITE_PREFIX) THEN acc
    ELSE IF f.is_list THEN acc \o f.data ELSE Append(acc, f.data[1])

RECURSIVE LoadFiles(_, _)
LoadFiles(acc, fs) ==
    IF fs = {} THEN acc
    ELSE LET f == CHOOSE g \in fs : TRUE
         IN  LoadFiles(LoadOneFile(acc, f), fs \ {f})

\* load_test_results: glob("*.json"), in whatever order the directory gives
LoadTestResults(dir) == LoadFiles(<<>>, {f \in dir : f.ext = "json"})

\* number of times x occurs in the list s
Count(x, s) == Cardinality({k \in 1..Len(s) : s[k] = x})

-----------------------------------------------------------------------------
(* run_comparison_suite: the configuration list *)

RECURSIVE ForEndpoints(_, _, _, _)
ForEndpoints(acc, framework, load, eps) ==
    IF eps = <<>> THEN acc
    ELSE ForEndpoints(Append(acc, [framework |-> framework, load |-> load,
                                   endpoint_name |-> Head(eps)]),
                      framework, load, Tail(eps))

RECURSIVE ForLoads(_, _, _, _)
ForLoads(acc, framework, lds, eps) ==
    IF lds = <<>> THEN acc
    ELSE ForLoads(ForEndpoints(acc, framework, Head(lds), eps), framework, Tail(lds), eps)

RECURSIVE ForFrameworks(_, _, _, _)
ForFrameworks(acc, fws, lds, eps) ==
    IF fws = <<>> THEN acc
    ELSE ForFrameworks(ForLoads(acc, Head(fws), lds, eps), Tail(fws), lds, eps)

\* configs, as the three nested loops append to it
BuildConfigs(fws, lds, eps) == ForFrameworks(<<>>, fws, lds, eps)

-----------------------------------------------------------------------------
(* LoadTester: make_request, run_sequential, run_concurrent *)

NoResult == [success |-> FALSE, time |-> NoneNum, error |-> FALSE]

\* LoadTester.__init__: self.results
FreshResults == [success |-> 0, errors |-> 0, response_times |-> <<>>]

NoDone == [ok |-> 0, non200 |-> 0, exc |-> 0]

Outcomes == {"ok", "non200", "exc"}

\* make_request: a 200 response, another status, or a timeout / transport exception
MakeRequest(outcome, t) ==
    CASE outcome = "ok"     -> [success |-> TRUE,  time |-> t, error |-> FALSE]
      [] outcome = "non200" -> [success |-> FALSE, time |-> t, error |-> FALSE]
      [] outcome = "exc"    -> [success |-> FALSE, time |-> 0, error |-> TRUE]

Aggregate_dropexc(res, r) ==
    IF r.success
    THEN [res EXCEPT !.success = @ + 1, !.response_times = Append(@, r.time)]
    ELSE IF r.error THEN res ELSE [res EXCEPT !.errors = @ + 1]

Aggregate_timefail(res, r) ==
    IF r.success
    THEN [res EXCEPT !.success = @ + 1, !.response_times = Append(@, r.time)]
    ELSE [res EXCEPT !.errors = @ + 1, !.response_times = Append(@, r.time)]

\* the loop body of run_sequential (80-84) and of run_concurrent (104-108)
Aggregate(res, r) ==
    IF r.success
    THEN [res EXCEPT !.success = @ + 1, !.response_times = Append(@, r.time)]
    ELSE [res EXCEPT !.errors = @ + 1]

\* run_test: `if load_size <= 100` and `min(100, load_size // 10)`
SEQUENTIAL_MAX == 100
POOL_CAP == 100
POOL_DIVISOR == 10

UsesSequential(load_size) == load_size <= SEQUENTIAL_MAX

PoolWidth_nodiv(load_size) == Min(POOL_CAP, load_size)

PoolWidth(load_size) == Min(POOL_CAP, load_size \div POOL_DIVISOR)

\* a failing request spends one unit of the environment's error budget
SpendError(outcome) ==
    /\ (outcome # "ok") => budget.errors > 0
    /\ budget' = IF outcome = "ok" THEN budget ELSE [budget EXCEPT !.errors = @ - 1]

\* run_test 431-436 with the first lines of run_sequential / run_concurrent
LoadDispatch ==
    /\ pc = "load" /\ mode = "none"
    /\ IF UsesSequential(rt.load_size)
       THEN /\ mode' = "sequential"
            /\ UNCHANGED <<max_workers, queued>>
       ELSE /\ mode' = "concurrent"
            /\ max_workers' = PoolWidth(rt.load_size)
            /\ queued' = rt.load_size
    /\ i' = 0
    /\ trace' = Append(trace, "load")
    /\ UNCHANGED <<results, running, done, issued, result>>
    /\ UNCHANGED <<pc, rt, tracker_on, test_duration, actual_duration, padding_seconds,
                   total_tracked_duration, energy_metadata, reliability,
                   container_metrics, record, ret, saved>>
    /\ UNCHANGED <<envvars, suitevars, fsvars, monvars, clockvars, fnvars, startvars, uctvars>>

\* run_sequential, one iteration of the loop
SeqRequest ==
    /\ pc = "load" /\ mode = "sequential"
    /\ i < rt.load_size
    /\ \E outcome \in Outcomes, t \in env.latencies :
         /\ SpendError(outcome)
         /\ result' = MakeRequest(outcome, t)
         /\ results' = Aggregate(results, result')
    /\ issued' = issued + 1
    /\ i' = i + 1
    /\ UNCHANGED <<mode, max_workers, queued, running, done, env>>
    /\ UNCHANGED <<suitevars, fsvars, rtvars, monvars, clockvars, fnvars, startvars, uctvars>>

LoadReturns_nostop ==
    /\ \E dt \in env.durations, da \in env.durations :
         /\ dt <= da
         /\ test_duration' = dt
         /\ actual_duration' = da
    /\ pc' = "pad"
    /\ UNCHANGED <<rt, tracker_on, padding_seconds, total_tracked_duration,
                   energy_metadata, reliability, container_metrics, record, ret,
                   trace, saved>>
    /\ UNCHANGED <<envvars, suitevars, fsvars, loadvars, monvars, clockvars, fnvars, startvars, uctvars>>

\* the load phase returns its elapsed time; run_test takes test_end (438-439) and
\* goes on to monitor.stop()
LoadReturns ==
    /\ \E dt \in env.durations, da \in env.durations :
         /\ dt <= da
         /\ test_duration' = dt
         /\ actual_duration' = da
    /\ pc' = "monitor_stop"
    /\ UNCHANGED <<rt, tracker_on, padding_seconds, total_tracked_duration,
                   energy_metadata, reliability, container_metrics, record, ret,
                   trace, saved>>
    /\ UNCHANGED <<envvars, suitevars, fsvars, loadvars, monvars, clockvars, fnvars, startvars, uctvars>>

\* run_sequential, the loop is exhausted
SeqReturn ==
    /\ pc = "load" /\ mode = "sequential"
    /\ i = rt.load_size
    /\ LoadReturns

\* a pool worker takes the next submitted future and calls make_request
WorkerStart ==
    /\ pc = "load" /\ mode = "concurrent"
    /\ queued > 0
    /\ running < max_workers
    /\ queued' = queued - 1
    /\ running' = running + 1
    /\ issued' = issued + 1
    /\ UNCHANGED <<results, mode, i, max_workers, done, result>>
    /\ UNCHANGED <<envvars, suitevars, fsvars, rtvars, monvars, clockvars, fnvars, startvars, uctvars>>

DoneCount == done.ok + done.non200 + done.exc

\* a worker's make_request returns; its future is done
WorkerFinish ==
    /\ pc = "load" /\ mode = "concurrent"
    /\ running > 0
    /\ DoneCount < MaxBacklog
    /\ \E outcome \in Outcomes :
         /\ SpendError(outcome)
         /\ done' = [done EXCEPT ![outcome] = @ + 1]
    /\ running' = running - 1
    /\ UNCHANGED <<results, mode, i, max_workers, queued, issued, result, env>>
    /\ UNCHANGED <<suitevars, fsvars, rtvars, monvars, clockvars, fnvars, startvars, uctvars>>

\* run_concurrent, one iteration of the as_completed loop (102-110)
ConcCollect ==
    /\ pc = "load" /\ mode = "concurrent"
    /\ \E outcome \in Outcomes, t \in env.latencies :
         /\ done[outcome] > 0
         /\ done' = [done EXCEPT ![outcome] = @ - 1]
         /\ result' = MakeRequest(outcome, t)
         /\ results' = Aggregate(results, result')
    /\ i' = i + 1
    /\ UNCHANGED <<mode, max_workers, queued, running, issued>>
    /\ UNCHANGED <<envvars, suitevars, fsvars, rtvars, monvars, clockvars, fnvars, startvars, uctvars>>

\* run_concurrent: as_completed has yielded every future, the pool shuts down
ConcReturn ==
    /\ pc = "load" /\ mode = "concurrent"
    /\ queued = 0 /\ running = 0 /\ DoneCount = 0
    /\ LoadReturns

-----------------------------------------------------------------------------
(* ContainerMonitor.  Its clock counts tenths of a second. *)

QUERY_TIMEOUT == 50       \* subprocess.run(..., timeout=5)
JOIN_TIMEOUT == 100       \* self._thread.join(timeout=10)
\* `while self._running and elapsed < self.interval` with interval = 1.0 and
\* elapsed += 0.1: ten additions of the float 0.1 give 0.9999999999999999, so the
\* test first fails after the eleventh sleep
INTERVAL_SLEEPS == 11

CPU_SAMPLE == 25          \* a parsed "25.00%"
MEM_SAMPLE == 45          \* a parsed "45MiB / 1.5GiB", in MB

\* what one `docker stats` query does: exit status 0 with both values parsed, with
\* one of them, with nothing usable; a non-zero exit status; the 5 s timeout; no
\* docker executable; any other exception, with a message or with an empty one
QueryOutcomes ==
    {"both", "cpu_only", "mem_only", "nothing", "nonzero", "timeout", "notfound",
     "exception", "exception_nomsg"}

\* the outcomes in which the query is missing or fails
QueryFailures == {"nonzero", "timeout", "notfound", "exception", "exception_nomsg"}

\* a handler that records the timeout as it records the other exceptions
PollError_timeout(outcome, err) ==
    CASE outcome = "notfound"  -> "Docker CLI not found"
      [] outcome = "exception" -> "exception"
      [] outcome = "exception_nomsg" -> ""
      [] outcome = "timeout"   -> "timeout"
      [] OTHER -> err

\* self._error after the query: the except clauses of lines 207-214
PollError(outcome, err) ==
    CASE outcome = "notfound"  -> "Docker CLI not found"
      [] outcome = "exception" -> "exception"
      [] outcome = "exception_nomsg" -> ""
      [] OTHER -> err

NoMetrics == [sample_count |-> NoneNum, mem_count |-> NoneNum, error |-> NoneStr]

\* the monitor is sampling a run whose stop() has not returned yet
StopReturned == pc \notin {"load", "monitor_stop", "joining"}

\* ContainerMonitor.start
MonitorStart ==
    /\ pc = "monitor_start"
    /\ mon_running' = TRUE
    /\ thread' = "loop"
    /\ cpu_samples' = <<>> /\ mem_samples' = <<>> /\ mon_error' = NoneStr
    /\ failed_queries' = {}
    /\ query_elapsed' = 0 /\ elapsed' = 0 /\ slept' = FALSE /\ join_elapsed' = 0
    /\ pc' = "load"
    /\ trace' = Append(trace, "monitor_start")
    /\ UNCHANGED late_samples
    /\ UNCHANGED <<rt, tracker_on, test_duration, actual_duration, padding_seconds,
                   total_tracked_duration, energy_metadata, reliability,
                   container_metrics, record, ret, saved>>
    /\ UNCHANGED <<envvars, suitevars, fsvars, loadvars, fnvars, startvars, uctvars>>

\* _poll: the test of `while self._running`, and the start of a docker query
PollLoopTest ==
    /\ thread = "loop"
    /\ mon_running => budget.polls > 0
    /\ IF mon_running
       THEN /\ thread' = "query"
            /\ query_elapsed' = 0
            /\ budget' = [budget EXCEPT !.polls = @ - 1]
       ELSE /\ thread' = "dead"
            /\ UNCHANGED <<query_elapsed, budget>>
    /\ UNCHANGED <<env, mon_running, cpu_samples, mem_samples, mon_error, failed_queries,
                   elapsed, slept, join_elapsed, late_samples>>
    /\ UNCHANGED <<suitevars, fsvars, rtvars, loadvars, fnvars, startvars, uctvars>>

\* _poll: subprocess.run returns or raises (lines 193-214).  The clocks of the
\* thread are its locals: each goes back to 0 when the code no longer reads it.
PollQueryReturn ==
    /\ thread = "query"
    /\ \E outcome \in QueryOutcomes :
         /\ (outcome = "timeout") => query_elapsed = QUERY_TIMEOUT
         /\ cpu_samples' = IF outcome \in {"both", "cpu_only"}
                           THEN Append(cpu_samples, CPU_SAMPLE) ELSE cpu_samples
         /\ mem_samples' = IF outcome \in {"both", "mem_only"}
                           THEN Append(mem_samples, MEM_SAMPLE) ELSE mem_samples
         /\ mon_error' = PollError(outcome, mon_error)
         /\ failed_queries' = IF outcome \in QueryFailures
                              THEN failed_queries \cup {outcome} ELSE failed_queries
         /\ thread' = IF outcome \in {"notfound", "exception", "exception_nomsg"}
                      THEN "dead" ELSE "sleep_test"
         /\ late_samples' = IF StopReturned /\ outcome \in {"both", "cpu_only", "mem_only"}
                            THEN late_samples + 1 ELSE late_samples
    /\ elapsed' = 0
    /\ query_elapsed' = 0
    /\ UNCHANGED <<mon_running, slept, join_elapsed>>
    /\ UNCHANGED <<envvars, suitevars, fsvars, rtvars, loadvars, fnvars, startvars, uctvars>>

\* _poll: the test of `while self._running and elapsed < self.interval`
PollSleepTest ==
    /\ thread = "sleep_test"
    /\ IF mon_running /\ elapsed < INTERVAL_SLEEPS
       THEN thread' = "sleeping" /\ slept' = FALSE
       ELSE thread' = "loop" /\ UNCHANGED slept
    /\ elapsed' = IF mon_running /\ elapsed < INTERVAL_SLEEPS THEN elapsed ELSE 0
    /\ UNCHANGED <<mon_running, cpu_samples, mem_samples, mon_error, failed_queries,
                   query_elapsed, join_elapsed, late_samples>>
    /\ UNCHANGED <<envvars, suitevars, fsvars, rtvars, loadvars, fnvars, startvars, uctvars>>

\* _poll: time.sleep(0.1) returns; elapsed += 0.1
PollSleepReturn ==
    /\ thread = "sleeping" /\ slept
    /\ elapsed' = elapsed + 1
    /\ slept' = FALSE
    /\ thread' = "sleep_test"
    /\ UNCHANGED <<mon_running, cpu_samples, mem_samples, mon_error, failed_queries,
                   query_elapsed, join_elapsed, late_samples>>
    /\ UNCHANGED <<envvars, suitevars, fsvars, rtvars, loadvars, fnvars, startvars, uctvars>>

\* A tenth of a second passes.  The polling thread's own statements take no time;
\* a docker query lasts at most its timeout, a sleep 0.1 s, a join at most its timeout.
Tick ==
    /\ thread \in {"query", "sleeping"}
    /\ thread = "query" => query_elapsed < QUERY_TIMEOUT
    /\ thread = "sleeping" => ~slept
    /\ pc = "joining" => join_elapsed < JOIN_TIMEOUT
    /\ query_elapsed' = IF thread = "query" THEN query_elapsed + 1 ELSE query_elapsed
    /\ slept' = IF thread = "sleeping" THEN TRUE ELSE slept
    /\ join_elapsed' = IF pc = "joining" THEN join_elapsed + 1 ELSE join_elapsed
    /\ UNCHANGED <<elapsed, late_samples>>
    /\ UNCHANGED <<envvars, suitevars, fsvars, rtvars, loadvars, monvars, fnvars, startvars, uctvars>>

\* _poll: subprocess.run does not come back at its timeout (the docker client cannot
\* be reaped): the thread stays blocked in the resource query
PollQueryHang ==
    /\ thread = "query"
    /\ query_elapsed = QUERY_TIMEOUT
    /\ thread' = "blocked"
    /\ UNCHANGED <<mon_running, cpu_samples, mem_samples, mon_error, failed_queries>>
    /\ UNCHANGED clockvars
    /\ UNCHANGED <<envvars, suitevars, fsvars, rtvars, loadvars, fnvars, startvars, uctvars>>

\* A tenth of a second passes while stop() waits in join for a blocked thread
JoinTick ==
    /\ pc = "joining"
    /\ thread = "blocked"
    /\ join_elapsed < JOIN_TIMEOUT
    /\ join_elapsed' = join_elapsed + 1
    /\ UNCHANGED <<query_elapsed, elapsed, slept, late_samples>>
    /\ UNCHANGED <<envvars, suitevars, fsvars, rtvars, loadvars, monvars, fnvars, startvars, uctvars>>

\* ContainerMonitor.stop, line 230, called at run_test 442
MonitorStopBegin ==
    /\ pc = "monitor_stop"
    /\ mon_running' = FALSE
    /\ join_elapsed' = 0
    /\ pc' = "joining"
    /\ trace' = Append(trace, "monitor_stop")
    /\ UNCHANGED <<thread, cpu_samples, mem_samples, mon_error, failed_queries,
                   query_elapsed, elapsed, slept, late_samples>>
    /\ UNCHANGED <<rt, tracker_on, test_duration, actual_duration, padding_seconds,
                   total_tracked_duration, energy_metadata, reliability,
                   container_metrics, record, ret, saved>>
    /\ UNCHANGED <<envvars, suitevars, fsvars, loadvars, fnvars, startvars, uctvars>>

JoinMayReturn_nojoin == TRUE

\* a join without its timeout
JoinMayReturn_untimed == thread = "dead"

\* self._thread.join(timeout=10) returns: the thread has ended, or the timeout has
JoinMayReturn == thread = "dead" \/ join_elapsed >= JOIN_TIMEOUT

\* ContainerMonitor.stop, lines 231-267: the join returns and the result is built
MonitorStopReturn ==
    /\ pc = "joining"
    /\ JoinMayReturn
    /\ container_metrics' = [sample_count |-> Len(cpu_samples),
                             mem_count    |-> Len(mem_samples),
                             error        |-> IF TruthyStr(mon_error)
                                              THEN mon_error ELSE NoneStr]
    /\ pc' = "pad"
    /\ UNCHANGED clockvars
    /\ UNCHANGED <<rt, tracker_on, test_duration, actual_duration, padding_seconds,
                   total_tracked_duration, energy_metadata, reliability,
                   record, ret, trace, saved>>
    /\ UNCHANGED <<envvars, suitevars, fsvars, loadvars, monvars, fnvars, startvars, uctvars>>

-----------------------------------------------------------------------------
(* run_test *)

NoArgs == [framework_key |-> NoneStr, load_size |-> 0, endpoint_name |-> NoneStr,
           run_id |-> NoneNum, min_duration |-> 0]

NoMeta == [error |-> NoneStr, measurement_reliability |-> NoneStr]

NoRecord == [framework_key |-> NoneStr]

\* what tracker.stop() does to the telemetry CSV: it adds a row, writes nothing,
\* leaves a table without rows, or leaves a file that cannot be read
TelemetryOutcomes == {"ok", "missing", "empty", "malformed"}

\* output_file=f"codecarbon_{test_id}.csv" (416) and csv_path (461)
CsvName(test_id) == <<"codecarbon">> \o test_id

\* the telemetry file of test_id in the directory, as a set of at most one file
CsvFiles(dir, test_id) == {f \in dir : f.name = CsvName(test_id) /\ f.ext = "csv"}

\* the directory after tracker.stop(): the row of execution `run` is added to the
\* rows the file already holds
WriteTelemetry(dir, test_id, tel, run) ==
    LET old  == CsvFiles(dir, test_id)
        rows == IF old = {} THEN <<>>
                ELSE LET f == CHOOSE g \in old : TRUE
                     IN  IF f.readable THEN f.rows ELSE <<>>
        Csv(readable, rws) == [name |-> CsvName(test_id), ext |-> "csv",
                               readable |-> readable, rows |-> rws, by |-> "tracker"]
    IN  CASE tel = "ok"        -> WriteFile(dir, Csv(TRUE, Append(rows, run)))
          [] tel = "missing"   -> dir
          [] tel = "empty"     -> WriteFile(dir, Csv(TRUE, <<>>))
          [] tel = "malformed" -> WriteFile(dir, Csv(FALSE, <<>>))

\* what extract_energy_metadata finds at csv_path: no file (304), a file whose
\* reading raises (369), a table without rows (311), or rows
CsvState(dir, test_id) ==
    LET fs == CsvFiles(dir, test_id)
    IN  IF fs = {} THEN "missing"
        ELSE LET f == CHOOSE g \in fs : TRUE
             IN  IF ~f.readable THEN "malformed"
                 ELSE IF f.rows = <<>> THEN "empty"
                 ELSE "ok"

\* extract_energy_metadata: the dict it returns when the CSV is read ("ok"), is not
\* there, has no rows, or reading it raises
ExtractEnergyMetadata(tel, dur_ms) ==
    CASE tel = "ok"        -> [error |-> NoneStr,
                               measurement_reliability |-> ClassifyDuration(dur_ms)]
      [] tel = "missing"   -> [error |-> "CSV not found",
                               measurement_reliability |-> NoneStr]
      [] tel = "empty"     -> [error |-> "CSV is empty",
                               measurement_reliability |-> NoneStr]
      [] tel = "malformed" -> [error |-> "exception",
                               measurement_reliability |-> "unknown"]

\* dict.get(key, default) of an optional string field
\* a lookup that hands back the absent value instead of the default
GetStr_nodefault(field, default) == field

GetStr(field, default) == IF field = NoneStr THEN default ELSE field

\* what run_test leaves alone apart from its own position and trace
RtFrame == <<rt, tracker_on, test_duration, actual_duration, padding_seconds,
             total_tracked_duration, energy_metadata, reliability,
             container_metrics, record, ret, saved>>

CheckHealth_noabort ==
    /\ pc = "health"
    /\ \E ok \in BOOLEAN :
         /\ (~ok) => budget.probes > 0
         /\ budget' = IF ok THEN budget ELSE [budget EXCEPT !.probes = @ - 1]
         /\ pc' = "warmup"
         /\ ret' = ret
         /\ trace' = Append(trace, IF ok THEN "health_ok" ELSE "health_fail")
    /\ UNCHANGED <<rt, tracker_on, test_duration, actual_duration, padding_seconds,
                   total_tracked_duration, energy_metadata, reliability,
                   container_metrics, record, saved>>
    /\ UNCHANGED <<env, suitevars, fsvars, loadvars, monvars, clockvars, fnvars, startvars, uctvars>>

\* check_health (395-399): a failed probe makes run_test return None
CheckHealth ==
    /\ pc = "health"
    /\ \E ok \in BOOLEAN :
         /\ (~ok) => budget.probes > 0
         /\ budget' = IF ok THEN budget ELSE [budget EXCEPT !.probes = @ - 1]
         /\ IF ok
            THEN /\ pc' = "warmup"
                 /\ ret' = ret
                 /\ trace' = Append(trace, "health_ok")
            ELSE /\ pc' = "returned"
                 /\ ret' = "None"
                 /\ trace' = Append(trace, "health_fail")
    /\ UNCHANGED <<rt, tracker_on, test_duration, actual_duration, padding_seconds,
                   total_tracked_duration, energy_metadata, reliability,
                   container_metrics, record, saved>>
    /\ UNCHANGED <<env, suitevars, fsvars, loadvars, monvars, clockvars, fnvars, startvars, uctvars>>

\* warmup (404): 50 probes whose failures are ignored, then time.sleep(2)
Warmup ==
    /\ pc = "warmup"
    /\ now' = now + 1
    /\ pc' = "tracker_start"
    /\ trace' = Append(trace, "warmup")
    /\ UNCHANGED <<files, RtFrame>>
    /\ UNCHANGED <<envvars, suitevars, loadvars, monvars, clockvars, fnvars, startvars, uctvars>>

\* lines 407-424: the LoadTester and the tracker are built, tracker.start()
TrackerStart ==
    /\ pc = "tracker_start"
    /\ results' = FreshResults
    /\ mode' = "none" /\ i' = 0 /\ max_workers' = 0 /\ queued' = 0
    /\ running' = 0 /\ done' = NoDone /\ issued' = 0 /\ result' = NoResult
    /\ tracker_on' = TRUE
    /\ pc' = "monitor_start"
    /\ trace' = Append(trace, "tracker_start")
    /\ UNCHANGED <<rt, test_duration, actual_duration, padding_seconds,
                   total_tracked_duration, energy_metadata, reliability,
                   container_metrics, record, ret, saved>>
    /\ UNCHANGED <<envvars, suitevars, fsvars, monvars, clockvars, fnvars, startvars, uctvars>>

\* a run_test that never pads
PadBegin_nopad ==
    /\ pc = "pad"
    /\ padding_seconds' = 0
    /\ pc' = "tracker_stop"
    /\ UNCHANGED <<trace, rt, tracker_on, test_duration, actual_duration,
                   total_tracked_duration, energy_metadata, reliability,
                   container_metrics, record, ret, saved>>
    /\ UNCHANGED <<envvars, suitevars, fsvars, loadvars, monvars, clockvars, fnvars,
                   startvars, uctvars>>

\* lines 445-449: the padding needed to reach min_duration
PadBegin ==
    /\ pc = "pad"
    /\ IF rt.min_duration > 0 /\ actual_duration < rt.min_duration
       THEN /\ padding_seconds' = rt.min_duration - actual_duration
            /\ pc' = "padding"
            /\ trace' = Append(trace, "pad")
       ELSE /\ padding_seconds' = 0
            /\ pc' = "tracker_stop"
            /\ UNCHANGED trace
    /\ UNCHANGED <<rt, tracker_on, test_duration, actual_duration,
                   total_tracked_duration, energy_metadata, reliability,
                   container_metrics, record, ret, saved>>
    /\ UNCHANGED <<envvars, suitevars, fsvars, loadvars, monvars, clockvars, fnvars, startvars, uctvars>>

\* line 450: time.sleep(padding_seconds) returns
PadEnd ==
    /\ pc = "padding"
    /\ pc' = "tracker_stop"
    /\ UNCHANGED <<trace, RtFrame>>
    /\ UNCHANGED <<envvars, suitevars, fsvars, loadvars, monvars, clockvars, fnvars, startvars, uctvars>>

\* lines 453-456: tracker.stop(), which leaves the telemetry in the CSV, the
\* tracked duration, the statistics
TrackerStop ==
    /\ pc = "tracker_stop"
    /\ tracker_on' = FALSE
    /\ \E tel \in TelemetryOutcomes :
         /\ (tel # "ok") => budget.telemetry > 0
         /\ budget' = IF tel = "ok" THEN budget ELSE [budget EXCEPT !.telemetry = @ - 1]
         /\ files' = WriteTelemetry(files,
                         TestId(rt.framework_key, rt.endpoint_name, rt.load_size),
                         tel, Len(calls))
    /\ total_tracked_duration' = actual_duration + padding_seconds
    /\ stats' = GetStatistics(results.response_times)
    /\ pc' = "extract"
    /\ trace' = Append(trace, "tracker_stop")
    /\ UNCHANGED <<rt, test_duration, actual_duration, padding_seconds,
                   energy_metadata, reliability, container_metrics, record, ret, saved>>
    /\ UNCHANGED <<startvars, uctvars, cls_record, cls_duration, cls_out, fn_pc, an_in, an_out>>
    /\ UNCHANGED <<env, now, suitevars, loadvars, monvars, clockvars>>

\* lines 460-465: the telemetry CSV is read and the reliability taken from it
ExtractEnergy ==
    /\ pc = "extract"
    /\ energy_metadata' =
         ExtractEnergyMetadata(
             CsvState(files, TestId(rt.framework_key, rt.endpoint_name, rt.load_size)),
             total_tracked_duration)
    /\ reliability' = GetStr(energy_metadata'.measurement_reliability, "unknown")
    /\ pc' = "compile"
    /\ trace' = Append(trace, "classify")
    /\ UNCHANGED <<rt, tracker_on, test_duration, actual_duration, padding_seconds,
                   total_tracked_duration, container_metrics, record, ret, saved>>
    /\ UNCHANGED <<envvars, suitevars, fsvars, loadvars, monvars, clockvars, fnvars, startvars, uctvars>>

\* lines 476-501: the results dict
CompileRecord ==
    [framework_key                  |-> rt.framework_key,
     load_size                      |-> rt.load_size,
     endpoint_name                  |-> rt.endpoint_name,
     timestamp                      |-> now,
     duration_seconds               |-> RoundSeconds(actual_duration),
     test_duration_seconds          |-> RoundSeconds(test_duration),
     total_tracked_duration_seconds |-> RoundSeconds(total_tracked_duration),
     success_count                  |-> results.success,
     error_count                    |-> results.errors,
     response_time_stats            |-> stats,
     energy_metadata                |-> energy_metadata,
     measurement_reliability        |-> reliability,
     container_metrics              |-> container_metrics,
     padding_seconds                |-> IF padding_seconds > 0
                                        THEN RoundSeconds(padding_seconds) ELSE NoneNum,
     run_id                         |-> rt.run_id]

Compile ==
    /\ pc = "compile"
    /\ record' = CompileRecord
    /\ pc' = "save"
    /\ trace' = Append(trace, "compile")
    /\ UNCHANGED <<rt, tracker_on, test_duration, actual_duration, padding_seconds,
                   total_tracked_duration, energy_metadata, reliability,
                   container_metrics, ret, saved>>
    /\ UNCHANGED <<envvars, suitevars, fsvars, loadvars, monvars, clockvars, fnvars, startvars, uctvars>>

\* lines 503-507 and save_results: the record is written and returned
Save ==
    /\ pc = "save"
    /\ files' = WriteFile(files,
                   [name    |-> SaveResultsName(
                                   TestId(rt.framework_key, rt.endpoint_name, rt.load_size),
                                   rt.run_id, now),
                    ext     |-> "json",
                    is_list |-> FALSE,
                    data    |-> <<record>>,
                    by      |-> "save_results"])
    /\ saved' = saved + 1
    /\ ret' = "record"
    /\ pc' = "returned"
    /\ trace' = Append(trace, "persist")
    /\ UNCHANGED <<now, rt, tracker_on, test_duration, actual_duration, padding_seconds,
                   total_tracked_duration, energy_metadata, reliability,
                   container_metrics, record>>
    /\ UNCHANGED <<envvars, suitevars, loadvars, monvars, clockvars, fnvars, startvars, uctvars>>

-----------------------------------------------------------------------------
(* run_comparison_suite *)

\* the keys of FRAMEWORKS and of ENDPOINTS
FrameworkKeys == <<"fastapi", "django", "springboot", "micronaut", "gin", "chi">>
EndpointNames == <<"light", "medium", "heavy">>

TotalTests == Len(configs) * suite_args.num_runs

AdvanceLoops_configmajor(idx, rid, k, num_runs) ==
    IF rid < num_runs
    THEN [cfg_idx |-> idx, run_id |-> rid + 1, more |-> TRUE]
    ELSE [cfg_idx |-> idx + 1, run_id |-> 1, more |-> idx < k]

\* `for run_id in range(1, num_runs + 1)` around `for ... in configs`: the
\* position after the body has run for (configs[idx], rid)
AdvanceLoops(idx, rid, k, num_runs) ==
    IF idx < k
    THEN [cfg_idx |-> idx + 1, run_id |-> rid, more |-> TRUE]
    ELSE [cfg_idx |-> 1, run_id |-> rid + 1, more |-> rid < num_runs]

\* lines 737-758: the configuration list is built
SuiteBuild ==
    /\ spc = "build"
    /\ configs' = BuildConfigs(suite_args.frameworks, suite_args.loads,
                               suite_args.endpoints)
    /\ all_results' = <<>>
    /\ current_test' = 0
    /\ run_id' = 1
    /\ cfg_idx' = 1
    /\ spc' = IF Len(configs') = 0 \/ suite_args.num_runs < 1 THEN "combine" ELSE "loop"
    /\ UNCHANGED <<suite_args, calls>>
    /\ UNCHANGED <<envvars, fsvars, rtvars, loadvars, monvars, clockvars, fnvars, startvars, uctvars>>

\* lines 765-772: the next configuration of the round is handed to run_test
SuiteCall ==
    /\ spc = "loop"
    /\ current_test' = current_test + 1
    /\ LET c == configs[cfg_idx]
       IN  /\ rt' = [framework_key |-> c.framework,
                     load_size     |-> c.load,
                     endpoint_name |-> c.endpoint_name,
                     run_id        |-> IF suite_args.num_runs > 1 THEN run_id ELSE NoneNum,
                     min_duration  |-> suite_args.min_duration]
           /\ calls' = Append(calls, [config |-> c, run_id |-> run_id])
    /\ spc' = "in_test"
    /\ pc' = "health"
    /\ ret' = "pending"
    /\ trace' = <<>>
    /\ saved' = 0
    /\ UNCHANGED <<tracker_on, test_duration, actual_duration, padding_seconds,
                   total_tracked_duration, energy_metadata, reliability,
                   container_metrics, record>>
    /\ UNCHANGED <<suite_args, configs, run_id, cfg_idx, all_results>>
    /\ UNCHANGED <<envvars, fsvars, loadvars, monvars, clockvars, fnvars, startvars, uctvars>>

\* a suite that puts the newest result first
Collected_prepend(all, returned, rec) ==
    IF returned = "record" THEN <<rec>> \o all ELSE all

\* lines 772-774: `if result: all_results.append(result)`
Collected(all, returned, rec) ==
    IF returned = "record" THEN Append(all, rec) ELSE all

\* lines 773-779: run_test has returned; the result is kept, the delay slept and
\* the loops advance.  The locals of the finished call go out of scope.
SuiteCollect ==
    /\ spc = "in_test"
    /\ pc = "returned"
    /\ all_results' = Collected(all_results, ret, record)
    /\ now' = IF current_test < TotalTests THEN now + 1 ELSE now
    /\ LET nxt == AdvanceLoops(cfg_idx, run_id, Len(configs), suite_args.num_runs)
       IN  /\ cfg_idx' = nxt.cfg_idx
           /\ run_id' = nxt.run_id
           /\ spc' = IF nxt.more THEN "loop" ELSE "combine"
    /\ pc' = "idle"
    /\ rt' = NoArgs
    /\ tracker_on' = FALSE
    /\ test_duration' = NoneNum /\ actual_duration' = NoneNum
    /\ padding_seconds' = NoneNum /\ total_tracked_duration' = NoneNum
    /\ energy_metadata' = NoMeta /\ reliability' = NoneStr
    /\ container_metrics' = NoMetrics
    /\ record' = NoRecord
    /\ stats' = NoStats
    /\ results' = FreshResults
    /\ mode' = "none" /\ i' = 0 /\ max_workers' = 0 /\ queued' = 0
    /\ running' = 0 /\ done' = NoDone /\ result' = NoResult
    /\ UNCHANGED <<ret, trace, saved, issued>>
    /\ UNCHANGED <<suite_args, configs, current_test, calls, files>>
    /\ IF thread = "dead"
       THEN /\ thread' = "none"
            /\ cpu_samples' = <<>> /\ mem_samples' = <<>> /\ mon_error' = NoneStr
            /\ failed_queries' = {}
       ELSE UNCHANGED <<thread, cpu_samples, mem_samples, mon_error, failed_queries>>
    /\ UNCHANGED <<startvars, uctvars, cls_record, cls_duration, cls_out, fn_pc, an_in, an_out>>
    /\ join_elapsed' = 0
    /\ UNCHANGED <<envvars, mon_running, query_elapsed, elapsed, slept, late_samples>>

\* lines 781-785: the combined file
SaveCombined ==
    /\ spc = "combine"
    /\ files' = WriteFile(files,
                   [name    |-> CombinedName(now),
                    ext     |-> "json",
                    is_list |-> TRUE,
                    data    |-> all_results,
                    by      |-> "run_comparison_suite"])
    /\ spc' = "done"
    /\ UNCHANGED <<suite_args, configs, run_id, cfg_idx, current_test, all_results, calls>>
    /\ UNCHANGED now
    /\ UNCHANGED <<envvars, rtvars, loadvars, monvars, clockvars, fnvars, startvars, uctvars>>

-----------------------------------------------------------------------------
(* The pure functions applied to enumerated inputs *)

\* extract_energy_metadata classifies cls_duration; _extract_reliability is handed
\* cls_record, a record without a reliability label
Classify ==
    /\ fn_pc = "classify"
    /\ cls_out' = [tracker  |-> ExtractEnergyMetadata("ok", cls_duration).measurement_reliability,
                   fallback |-> ExtractReliability(cls_record)]
    /\ fn_pc' = "classified"
    /\ UNCHANGED <<startvars, uctvars, stats, cls_record, cls_duration, an_in, an_out>>
    /\ UNCHANGED <<envvars, suitevars, fsvars, rtvars, loadvars, monvars, clockvars>>

\* tester.get_statistics() on the sample held in self.results
Statistics ==
    /\ fn_pc = "statistics"
    /\ stats' = GetStatistics(results.response_times)
    /\ fn_pc' = "statistics_done"
    /\ UNCHANGED <<startvars, uctvars, cls_record, cls_duration, cls_out, an_in, an_out>>
    /\ UNCHANGED <<envvars, suitevars, fsvars, rtvars, loadvars, monvars, clockvars>>

-----------------------------------------------------------------------------
(* analyze_results.py: the statistics engine.  A p-value is an integer number of
   P_UNIT-ths; the numbers scipy computes are inputs of the call. *)

P_ONE == 10000000         \* the p-value 1.0
ALPHA == 500000           \* ALPHA = 0.05
ROUND6 == 10              \* round(p, 6) moves p to the nearest multiple of this
FORMAT4 == 1000           \* f"{p:.4f}" moves p to the nearest multiple of this
MEAN_SCALE == 10000       \* f"{mean:.4f}" counts ten-thousandths
NaN == -2                 \* float("nan")

\* pieces of an f-string: literal text and formatted numbers
\* (the dash of the source's statements is written "--")
Txt(s) == [txt |-> s]
Num(n) == [num |-> n]

\* means[a] < means[b] for two groups, each a record [key, vals]
MeanBelow(a, b) == SeqSum(a.vals) * Len(b.vals) < SeqSum(b.vals) * Len(a.vals)

\* a sort that ignores the direction
SortedFws_ascending(groups, direction) ==
    LET n == Len(groups)
        Rank(j) == 1 + Cardinality({k \in 1..n :
                         \/ MeanBelow(groups[k], groups[j])
                         \/ ~MeanBelow(groups[j], groups[k]) /\ k < j})
    IN  [r \in 1..n |-> CHOOSE j \in 1..n : Rank(j) = r]

\* sorted(means, key=means.get) and its reverse=True form (lines 493-496): the
\* positions of the subjects in sorted order; equal means keep the dict's order
SortedFws(groups, direction) ==
    LET n == Len(groups)
        Before(j, k) == IF direction = "lower"
                        THEN MeanBelow(groups[j], groups[k])
                        ELSE MeanBelow(groups[k], groups[j])
        Rank(j) == 1 + Cardinality({k \in 1..n :
                         \/ Before(k, j)
                         \/ ~Before(j, k) /\ k < j})
    IN  [r \in 1..n |-> CHOOSE j \in 1..n : Rank(j) = r]

\* a test without the isnan guard
Significant_nonan(pv) == pv < ALPHA

\* lines 526-529
Significant(pv) == IF pv = NaN THEN FALSE ELSE pv < ALPHA

\* f"{p_value:.4f}"
FormatP(pv) == IF pv = NaN THEN Txt("nan") ELSE Num(RoundTo(pv, 1, FORMAT4))

\* f"{best_mean:.4f}"
FormatMean(g) == Num(RoundTo(SeqSum(g.vals) * MEAN_SCALE, Len(g.vals), 1))

NoCounts == [none |-> TRUE]

\* a caveat that needs every measurement to be unreliable
Caveat_allonly(counts) ==
    IF counts = NoCounts THEN <<>>
    ELSE LET total_m == counts.reliable + counts.marginal + counts.unreliable
                          + counts.unknown
         IN  IF total_m > 0 /\ counts.unreliable = total_m
             THEN <<Txt("[CAVEAT: all measurements below noise floor]")>>
             ELSE <<>>

\* lines 541-547: what is appended to the statement
Caveat(counts) ==
    IF counts = NoCounts THEN <<>>
    ELSE LET total_m == counts.reliable + counts.marginal + counts.unreliable
                          + counts.unknown
             unreliable_m == counts.unreliable
         IN  IF total_m = 0 THEN <<>>
             ELSE IF unreliable_m = total_m
             THEN <<Txt("[CAVEAT: all measurements below noise floor]")>>
             ELSE IF unreliable_m > 0
             THEN <<Txt("[CAVEAT:"), Num(unreliable_m), Txt("/"), Num(total_m),
                    Txt("measurements unreliable]")>>
             ELSE <<>>

\* lines 512-515: the t-test between winner and runner-up is run
RunsTest(groups, direction, has_scipy) ==
    /\ Len(groups) >= 2
    /\ has_scipy
    /\ LET order == SortedFws(groups, direction)
       IN  Len(groups[order[1]].vals) >= 2 /\ Len(groups[order[2]].vals) >= 2

\* determine_statistical_winner; pv is what ttest_ind returns for winner and
\* runner-up
DetermineStatisticalWinner(groups, direction, counts, has_scipy, pv) ==
    IF Len(groups) = 0
    THEN [winner |-> NoneStr, is_significant |-> FALSE, p_value |-> NoneNum,
          runner_up |-> NoneStr, statement |-> <<Txt("No data")>>]
    ELSE
    LET order == SortedFws(groups, direction)
        best  == groups[order[1]]
    IN  IF Len(groups) < 2
        THEN [winner |-> best.key, is_significant |-> FALSE, p_value |-> NoneNum,
              runner_up |-> NoneStr,
              statement |-> <<Txt(best.key), Txt("(only one framework)")>>]
        ELSE
        LET runner == groups[order[2]]
        IN  IF ~has_scipy \/ Len(best.vals) < 2 \/ Len(runner.vals) < 2
            THEN [winner |-> best.key, is_significant |-> FALSE, p_value |-> NoneNum,
                  runner_up |-> NoneStr,
                  statement |-> <<Txt(best.key), FormatMean(best),
                                  Txt("-- not enough data for significance test")>>]
            ELSE
            LET significant == Significant(pv)
                tag == IF significant THEN "[SIG]" ELSE "[N.S.]"
                qualifier == IF significant
                             THEN <<Txt("significantly better than"), Txt(runner.key),
                                    Txt("p="), FormatP(pv)>>
                             ELSE <<Txt("not significantly different from"),
                                    Txt(runner.key), Txt("p="), FormatP(pv)>>
            IN  [winner |-> best.key,
                 is_significant |-> significant,
                 p_value |-> IF pv = NaN THEN NoneNum ELSE RoundTo(pv, 1, ROUND6),
                 runner_up |-> runner.key,
                 statement |-> <<Txt(tag), Txt(best.key), FormatMean(best), Txt("--")>>
                               \o qualifier \o Caveat(counts)]

\* a call of determine_statistical_winner
Winner ==
    /\ fn_pc = "winner"
    /\ an_out' = [fn |-> "winner"] @@
                 DetermineStatisticalWinner(an_in.groups, an_in.direction, an_in.counts,
                                            an_in.has_scipy, an_in.ttest_p)
    /\ fn_pc' = "winner_done"
    /\ UNCHANGED <<startvars, uctvars, stats, cls_record, cls_duration, cls_out, an_in>>
    /\ UNCHANGED <<envvars, suitevars, fsvars, rtvars, loadvars, monvars, clockvars>>

\* ---- run_anova.  A dict is a record that has exactly the keys of the dict.

\* f_oneway is reached: scipy, two groups or more, two observations or more in each
AnovaRunsTest(groups, has_scipy) ==
    /\ has_scipy
    /\ Len(groups) >= 2
    /\ \A j \in 1..Len(groups) : Len(groups[j].vals) >= 2

\* the keys of the dict, in its order
Keys(groups) == [j \in 1..Len(groups) |-> groups[j].key]

\* an omnibus result whose NaN return carries no flag
RunAnova_noflag(groups, has_scipy, pv) ==
    IF ~has_scipy
    THEN [warning |-> "scipy not installed; ANOVA skipped"]
    ELSE IF Len(groups) < 2
    THEN [warning |-> "Need at least 2 groups for ANOVA", significant |-> FALSE]
    ELSE IF \E j \in 1..Len(groups) : Len(groups[j].vals) < 2
    THEN [warning |-> "Each group needs at least 2 observations for ANOVA",
          significant |-> FALSE]
    ELSE IF pv = NaN
    THEN [f_statistic |-> NoneNum, p_value |-> NoneNum,
          warning |-> "ANOVA returned NaN (all groups may have zero variance)",
          groups |-> Keys(groups)]
    ELSE [p_value |-> RoundTo(pv, 1, ROUND6), significant |-> pv < ALPHA,
          groups |-> Keys(groups), n_groups |-> Len(groups)]

\* run_anova; pv is the p-value f_oneway returns, NaN when its statistic or its
\* p-value is NaN.  The F statistic of a test that succeeded and the metric label
\* are left out of the dict.
RunAnova(groups, has_scipy, pv) ==
    IF ~has_scipy
    THEN [warning |-> "scipy not installed; ANOVA skipped"]
    ELSE IF Len(groups) < 2
    THEN [warning |-> "Need at least 2 groups for ANOVA", significant |-> FALSE]
    ELSE IF \E j \in 1..Len(groups) : Len(groups[j].vals) < 2
    THEN [warning |-> "Each group needs at least 2 observations for ANOVA",
          significant |-> FALSE]
    ELSE IF pv = NaN
    THEN [f_statistic |-> NoneNum, p_value |-> NoneNum, significant |-> FALSE,
          warning |-> "ANOVA returned NaN (all groups may have zero variance)",
          groups |-> Keys(groups)]
    ELSE [p_value |-> RoundTo(pv, 1, ROUND6), significant |-> pv < ALPHA,
          groups |-> Keys(groups), n_groups |-> Len(groups)]

\* a call of run_anova
Anova ==
    /\ fn_pc = "anova"
    /\ an_out' = [fn |-> "anova",
                  result |-> RunAnova(an_in.groups, an_in.has_scipy, an_in.anova_p)]
    /\ fn_pc' = "anova_done"
    /\ UNCHANGED <<startvars, uctvars, stats, cls_record, cls_duration, cls_out, an_in>>
    /\ UNCHANGED <<envvars, suitevars, fsvars, rtvars, loadvars, monvars, clockvars>>

\* ---- run_pairwise_tests

MEAN6_SCALE == 1000000    \* round(mean, 6) counts millionths

\* the place of a key in sorted(keys)
SubjectRank(key) ==
    CASE key = "django" -> 1
      [] key = "fastapi" -> 2
      [] key = "gin" -> 3

\* sorted(grouped_by_framework.keys()): the positions of the subjects in key order
SortedKeys(groups) ==
    LET n == Len(groups)
        Rank(j) == 1 + Cardinality({k \in 1..n :
                         SubjectRank(groups[k].key) < SubjectRank(groups[j].key)})
    IN  [r \in 1..n |-> CHOOSE j \in 1..n : Rank(j) = r]

\* list(combinations(range(1, n + 1), 2))
Combinations2(n) ==
    LET all == {pr \in (1..n) \X (1..n) : pr[1] < pr[2]}
        Before(q, pr) == q[1] < pr[1] \/ (q[1] = pr[1] /\ q[2] < pr[2])
    IN  [r \in 1..Cardinality(all) |->
            CHOOSE pr \in all : Cardinality({q \in all : Before(q, pr)}) = r - 1]

\* the pairs of subjects in the order the loop visits them, as positions in groups
Pairs(groups) ==
    LET keys == SortedKeys(groups)
        comb == Combinations2(Len(groups))
    IN  [r \in 1..Len(comb) |-> <<keys[comb[r][1]], keys[comb[r][2]]>>]

\* a correction that is not capped at 1.0
Bonferroni_nocap(p_raw, num_comparisons) == p_raw * num_comparisons

\* line 427: min(p_raw * num_comparisons, 1.0)
Bonferroni(p_raw, num_comparisons) == Min(p_raw * num_comparisons, P_ONE)

SumSq(v) == SeqSum([j \in 1..Len(v) |-> v[j] * v[j]])

\* n times the sum of squared deviations of a list: n * (n - 1) * stdev ** 2
Spread(v) == Len(v) * SumSq(v) - SeqSum(v) * SeqSum(v)

\* Cohen's d of two lists: sign * sqrt(sq_num / sq_den), kept exact and unrounded.
\* With D = n_a * n_b * (mean_a - mean_b) and W = n_a * n_b * (the two sums of
\* squared deviations), d squared is D^2 * (n_a + n_b - 2) / (n_a * n_b * W).
\* This one keeps the sign of mean_a - mean_b.
CohensD_signed(va, vb) ==
    LET na == Len(va)
        nb == Len(vb)
        D  == SeqSum(va) * nb - SeqSum(vb) * na
        W  == nb * Spread(va) + na * Spread(vb)
    IN  IF W > 0
        THEN [sign |-> IF D > 0 THEN 1 ELSE IF D < 0 THEN -1 ELSE 0,
              sq_num |-> D * D * (na + nb - 2), sq_den |-> na * nb * W]
        ELSE [sign |-> 0, sq_num |-> 0, sq_den |-> 1]

\* lines 430-441: abs(mean_a - mean_b) / pooled_std, or 0.0 when pooled_std is 0
CohensD(va, vb) ==
    LET na == Len(va)
        nb == Len(vb)
        D  == SeqSum(va) * nb - SeqSum(vb) * na
        W  == nb * Spread(va) + na * Spread(vb)
    IN  IF W > 0
        THEN [sign |-> IF D # 0 THEN 1 ELSE 0,
              sq_num |-> D * D * (na + nb - 2), sq_den |-> na * nb * W]
        ELSE [sign |-> 0, sq_num |-> 0, sq_den |-> 1]

\* cohens_d < num/den, for a positive bound
DBelow(d, num, den) ==
    d.sign <= 0 \/ d.sq_num * den * den < d.sq_den * num * num

\* lines 444-451
EffectLabel(d) ==
    IF DBelow(d, 1, 5) THEN "negligible"
    ELSE IF DBelow(d, 1, 2) THEN "small"
    ELSE IF DBelow(d, 4, 5) THEN "medium"
    ELSE "large"

\* the t-test of this pair is run
PairTested(a, b) == Len(a.vals) >= 2 /\ Len(b.vals) >= 2

\* the dict run_pairwise_tests appends for one pair; p_raw is what ttest_ind
\* returns, NaN when its statistic or its p-value is NaN.  The t statistic is left
\* out of the dict.
PairEntry(a, b, p_raw, num_comparisons) ==
    IF ~PairTested(a, b)
    THEN [fw_a |-> a.key, fw_b |-> b.key, warning |-> "Need >= 2 observations per group"]
    ELSE IF p_raw = NaN
    THEN [fw_a |-> a.key, fw_b |-> b.key,
          mean_a |-> RoundTo(SeqSum(a.vals) * MEAN6_SCALE, Len(a.vals), 1),
          mean_b |-> RoundTo(SeqSum(b.vals) * MEAN6_SCALE, Len(b.vals), 1),
          warning |-> "t-test returned NaN"]
    ELSE LET p_corrected == Bonferroni(p_raw, num_comparisons)
             cohens_d == CohensD(a.vals, b.vals)
         IN  [fw_a |-> a.key, fw_b |-> b.key,
              mean_a |-> RoundTo(SeqSum(a.vals) * MEAN6_SCALE, Len(a.vals), 1),
              mean_b |-> RoundTo(SeqSum(b.vals) * MEAN6_SCALE, Len(b.vals), 1),
              p_raw |-> RoundTo(p_raw, 1, ROUND6),
              p_corrected |-> RoundTo(p_corrected, 1, ROUND6),
              significant |-> p_corrected < ALPHA,
              cohens_d |-> cohens_d,
              effect_size |-> EffectLabel(cohens_d),
              num_comparisons |-> num_comparisons]

\* run_pairwise_tests; ttest[r] is what ttest_ind returns for the r-th pair
RunPairwiseTests(groups, has_scipy, ttest) ==
    IF ~has_scipy THEN <<>>
    ELSE LET pairs == Pairs(groups)
         IN  [r \in 1..Len(pairs) |->
                 PairEntry(groups[pairs[r][1]], groups[pairs[r][2]], ttest[r],
                           Len(pairs))]

\* a call of run_pairwise_tests
Pairwise ==
    /\ fn_pc = "pairwise"
    /\ an_out' = [fn |-> "pairwise",
                  results |-> RunPairwiseTests(an_in.groups, an_in.has_scipy,
                                               an_in.ttest)]
    /\ fn_pc' = "pairwise_done"
    /\ UNCHANGED <<startvars, uctvars, stats, cls_record, cls_duration, cls_out, an_in>>
    /\ UNCHANGED <<envvars, suitevars, fsvars, rtvars, loadvars, monvars, clockvars>>

\* ---- the statistical section of a report: the pairwise table and the winner are
\* computed over the same groups (analyze_results.py:969-985, 629-644)

\* the place in the pairwise table of the pair made of groups j and k
PairIndex(groups, j, k) ==
    CHOOSE r \in 1..Len(Pairs(groups)) :
        {Pairs(groups)[r][1], Pairs(groups)[r][2]} = {j, k}

\* a winner whose p-value is that of the table's first pair
WinnerP_first(groups, direction, ttest) ==
    IF Len(groups) < 2 THEN NaN ELSE ttest[1]

\* what ttest_ind(vals_best, vals_runner) returns (line 523): the test that the
\* pairwise table runs on the same two samples, whose p-value does not depend on the
\* order of the samples
WinnerP(groups, direction, ttest) ==
    IF Len(groups) < 2 THEN NaN
    ELSE LET order == SortedFws(groups, direction)
         IN  ttest[PairIndex(groups, order[1], order[2])]

\* lines 969-981: run_pairwise_tests(fw_groups, metric)
ReportPairwise ==
    /\ fn_pc = "report"
    /\ an_out' = [fn |-> "report",
                  pairwise |-> RunPairwiseTests(an_in.groups, an_in.has_scipy,
                                                an_in.ttest)]
    /\ fn_pc' = "report_pairwise"
    /\ UNCHANGED <<startvars, uctvars, stats, cls_record, cls_duration, cls_out, an_in>>
    /\ UNCHANGED <<envvars, suitevars, fsvars, rtvars, loadvars, monvars, clockvars>>

\* lines 983-985: determine_statistical_winner(fw_groups, metric, direction, ...)
ReportWinner ==
    /\ fn_pc = "report_pairwise"
    /\ an_out' = [winner |-> DetermineStatisticalWinner(
                                 an_in.groups, an_in.direction, an_in.counts,
                                 an_in.has_scipy,
                                 WinnerP(an_in.groups, an_in.direction, an_in.ttest))]
                 @@ an_out
    /\ fn_pc' = "report_done"
    /\ UNCHANGED <<startvars, uctvars, stats, cls_record, cls_duration, cls_out, an_in>>
    /\ UNCHANGED <<envvars, suitevars, fsvars, rtvars, loadvars, monvars, clockvars>>

\* ---- calculate_statistics

T_CRIT_FALLBACK == 2000   \* t_crit = 2.0, in thousandths
AVG3_SCALE == 1000        \* round(mean, 3) counts thousandths
AVG2_SCALE == 100         \* round(mean, 2) counts hundredths

Metrics == {"emissions_g", "emissions_per_request_mg", "rps", "response_time_ms"}

\* the lambdas of METRIC_EXTRACTORS: the value under the metric's key, 0 without it
ExtractMetric(r, metric) ==
    CASE metric = "emissions_g" ->
           IF "emissions_g" \in DOMAIN r THEN r.emissions_g ELSE 0
      [] metric = "emissions_per_request_mg" ->
           IF "avg_emissions_per_request_mg" \in DOMAIN r
           THEN r.avg_emissions_per_request_mg ELSE 0
      [] metric = "rps" ->
           IF "requests_per_second" \in DOMAIN r THEN r.requests_per_second ELSE 0
      [] metric = "response_time_ms" ->
           IF "response_time_stats" \in DOMAIN r THEN r.response_time_stats.mean_ms ELSE 0

\* _extract_metric_values
ExtractMetricValues(rs, metric) == [j \in 1..Len(rs) |-> ExtractMetric(rs[j], metric)]

\* a critical value taken from the backend whether it is there or not
CriticalValue_ppf(has_scipy, t_ppf) == t_ppf

\* lines 299-303: t_crit, in thousandths; t_ppf is what sp_stats.t.ppf returns
CriticalValue(has_scipy, t_ppf) == IF has_scipy THEN t_ppf ELSE T_CRIT_FALLBACK

\* the keys calculate_statistics sets for one metric (lines 282-315).  A standard
\* deviation is kept exact, as the fraction that is its square; a bound of the
\* interval is kept as mean + t_crit * stderr with its three parts.
MetricStatistics(values, emissions, has_scipy, t_ppf) ==
    LET n == Len(values)
        avg == IF n = 0 THEN 0
               ELSE RoundTo(SeqSum(values) * (IF emissions THEN AVG3_SCALE ELSE AVG2_SCALE),
                            n, 1)
        mean6 == IF n = 0 THEN 0 ELSE RoundTo(SeqSum(values) * MEAN6_SCALE, n, 1)
    IN  IF n >= 2
        THEN LET var    == [num |-> Spread(values), den |-> n * (n - 1)]
                 stderr == [num |-> Spread(values), den |-> n * n * (n - 1)]
                 t_crit == CriticalValue(has_scipy, t_ppf)
             IN  [avg |-> avg, mean |-> mean6,
                  std_sq |-> var, stderr_sq |-> stderr,
                  ci_low  |-> [mean |-> mean6, t_crit |-> 0 - t_crit, stderr_sq |-> stderr],
                  ci_high |-> [mean |-> mean6, t_crit |-> t_crit, stderr_sq |-> stderr],
                  n |-> n]
        ELSE [avg |-> avg, mean |-> mean6, n |-> n]

EmptyDict == [k \in {} |-> 0]

\* calculate_statistics: {} for no results, else the count and the keys of each metric
CalculateStatistics(rs, has_scipy, t_ppf) ==
    IF Len(rs) = 0 THEN EmptyDict
    ELSE [count |-> Len(rs),
          metrics |-> [m \in Metrics |->
                          MetricStatistics(ExtractMetricValues(rs, m),
                                           m \in {"emissions_g", "emissions_per_request_mg"},
                                           has_scipy, t_ppf)]]

\* a call of calculate_statistics
Describe ==
    /\ fn_pc = "describe"
    /\ an_out' = [fn |-> "describe",
                  result |-> CalculateStatistics(an_in.results, an_in.has_scipy,
                                                 an_in.t_ppf)]
    /\ fn_pc' = "describe_done"
    /\ UNCHANGED <<startvars, uctvars, stats, cls_record, cls_duration, cls_out, an_in>>
    /\ UNCHANGED <<envvars, suitevars, fsvars, rtvars, loadvars, monvars, clockvars>>

-----------------------------------------------------------------------------
(* run_startup_benchmark and measure_startup_time
   (test_carbon_comprehensive.py:588-694).  The clock of one measurement counts half
   seconds since start_time; startup_time_seconds is kept in milliseconds, on which
   round(., 3) changes nothing. *)

HALF_SECOND_MS == 500

\* the budget of steps that do not go promptly and well in one benchmark
MaxStartFaults == 2
\* subjects and rounds of one benchmark
MaxStartFrameworks == 2
MaxStartRuns == 2
\* measure_startup_time's timeout in half seconds (120 s by default in the source;
\* the exploration uses seconds-long timeouts)
MaxStartTimeout == 6

\* requests.get(health_url, timeout=2) answers at once or takes its two seconds;
\* docker start returns at once or after half a second
ProbeTimes == {0, 4}
StartTimes == {0, 1}
\* time.sleep(0.5)
POLL_SLEEP == 1

\* FRAMEWORKS[framework_key]["name"]
FrameworkName(framework_key) ==
    CASE framework_key = "fastapi"    -> "FastAPI"
      [] framework_key = "django"     -> "Django"
      [] framework_key = "springboot" -> "Spring Boot"
      [] framework_key = "micronaut"  -> "Micronaut"
      [] framework_key = "gin"        -> "Gin"
      [] framework_key = "chi"        -> "Chi"

\* f"{framework_config['folder']}-app-1"
ContainerName(framework_key) == <<framework_key, "-carbon-test", "-app-1">>

NoStartArgs == [frameworks |-> <<>>, num_runs |-> 0, timeout |-> 0]
NoStartRecord == [framework_key |-> NoneStr]

\* the dict of a measurement that reached a healthy response
StartupRecord(framework_key, startup_time, t) ==
    [framework_key        |-> framework_key,
     framework            |-> FrameworkName(framework_key),
     container_name       |-> ContainerName(framework_key),
     startup_time_seconds |-> startup_time,
     timestamp            |-> t]

\* the dict of a measurement that failed: no time, and the reason
StartupError_noerror(framework_key, error, t) ==
    [framework_key        |-> framework_key,
     framework            |-> FrameworkName(framework_key),
     container_name       |-> ContainerName(framework_key),
     startup_time_seconds |-> NoneNum,
     timestamp            |-> t]

StartupError(framework_key, error, t) ==
    [framework_key        |-> framework_key,
     framework            |-> FrameworkName(framework_key),
     container_name       |-> ContainerName(framework_key),
     startup_time_seconds |-> NoneNum,
     error                |-> error,
     timestamp            |-> t]

\* f"test_results/startup_times_{timestamp}.json"
StartupTimesName(t) == <<"startup", "times">> \o Timestamp(t)

StartupSubject == startup_args.frameworks[startup_idx]

\* the for loops of run_startup_benchmark (lines 677-679): the next subject of the
\* round is measured, or the rounds are over
StartupLoop ==
    /\ startup_pc = "round"
    /\ IF startup_run_id <= startup_args.num_runs
       THEN /\ startup_pc' = "stop"
            /\ startup_calls' = Append(startup_calls, <<StartupSubject, startup_run_id>>)
       ELSE /\ startup_pc' = "save"
            /\ UNCHANGED startup_calls
    /\ UNCHANGED <<startup_args, startup_run_id, startup_idx, startup_clock, probe_began,
                   startup_ret, startup_results>>
    /\ UNCHANGED <<envvars, suitevars, fsvars, rtvars, loadvars, monvars, clockvars,
                   fnvars, uctvars>>

\* lines 600-612: docker stop; subprocess.run returns (whatever the exit code) or
\* raises, which ends the measurement with an error dict; then time.sleep(2) and
\* start_time is taken
StartupStop ==
    /\ startup_pc = "stop"
    /\ \E raises \in BOOLEAN :
         /\ raises => budget.starts > 0
         /\ budget' = IF raises THEN [budget EXCEPT !.starts = @ - 1] ELSE budget
         /\ IF raises
            THEN /\ startup_ret' = StartupError(StartupSubject,
                                      <<Txt("Failed to stop container: "), Txt("e")>>, now)
                 /\ startup_pc' = "returned"
                 /\ UNCHANGED startup_clock
            ELSE /\ startup_clock' = 0
                 /\ startup_pc' = "start"
                 /\ UNCHANGED startup_ret
    /\ UNCHANGED <<startup_args, startup_run_id, startup_idx, probe_began,
                   startup_results, startup_calls>>
    /\ UNCHANGED <<env, suitevars, fsvars, rtvars, loadvars, monvars, clockvars,
                   fnvars, uctvars>>

\* lines 615-627: docker start, timed from before the command
StartupStart ==
    /\ startup_pc = "start"
    /\ \E raises \in BOOLEAN, d \in StartTimes :
         /\ (raises \/ d > 0) => budget.starts > 0
         /\ budget' = IF raises \/ d > 0 THEN [budget EXCEPT !.starts = @ - 1] ELSE budget
         /\ startup_clock' = startup_clock + d
         /\ IF raises
            THEN /\ startup_ret' = StartupError(StartupSubject,
                                      <<Txt("Failed to start container: "), Txt("e")>>, now)
                 /\ startup_pc' = "returned"
            ELSE /\ startup_pc' = "poll_test"
                 /\ UNCHANGED startup_ret
    /\ UNCHANGED <<startup_args, startup_run_id, startup_idx, probe_began,
                   startup_results, startup_calls>>
    /\ UNCHANGED <<env, suitevars, fsvars, rtvars, loadvars, monvars, clockvars,
                   fnvars, uctvars>>

\* line 630 and lines 651-658: while time.time() - start_time < timeout, and the dict
\* returned when the loop ends
StartupPollTest ==
    /\ startup_pc = "poll_test"
    /\ IF startup_clock < startup_args.timeout
       THEN /\ startup_pc' = "probe"
            /\ probe_began' = startup_clock
            /\ UNCHANGED startup_ret
       ELSE /\ startup_ret' = StartupError(StartupSubject,
                                 <<Txt("Health endpoint did not respond within "),
                                   Num(startup_args.timeout), Txt("s")>>, now)
            /\ startup_pc' = "returned"
            /\ UNCHANGED probe_began
    /\ UNCHANGED <<startup_args, startup_run_id, startup_idx, startup_clock,
                   startup_results, startup_calls>>
    /\ UNCHANGED <<envvars, suitevars, fsvars, rtvars, loadvars, monvars, clockvars,
                   fnvars, uctvars>>

\* lines 631-648: one health probe; a 200 ends the measurement with the elapsed time,
\* any other status and any exception are passed over
StartupProbe ==
    /\ startup_pc = "probe"
    /\ \E outcome \in {"200", "other_status", "ConnectionError", "Exception"},
          d \in ProbeTimes :
         /\ (outcome # "200" \/ d > 0) => budget.starts > 0
         /\ budget' = IF outcome # "200" \/ d > 0
                      THEN [budget EXCEPT !.starts = @ - 1] ELSE budget
         /\ startup_clock' = startup_clock + d
         /\ IF outcome = "200"
            THEN /\ startup_ret' = StartupRecord(StartupSubject,
                                      (startup_clock + d) * HALF_SECOND_MS, now)
                 /\ startup_pc' = "returned"
            ELSE /\ startup_pc' = "sleep"
                 /\ UNCHANGED startup_ret
    /\ UNCHANGED <<startup_args, startup_run_id, startup_idx, probe_began,
                   startup_results, startup_calls>>
    /\ UNCHANGED <<env, suitevars, fsvars, rtvars, loadvars, monvars, clockvars,
                   fnvars, uctvars>>

\* line 649: time.sleep(0.5)
StartupSleep ==
    /\ startup_pc = "sleep"
    /\ startup_clock' = startup_clock + POLL_SLEEP
    /\ startup_pc' = "poll_test"
    /\ UNCHANGED <<startup_args, startup_run_id, startup_idx, probe_began, startup_ret,
                   startup_results, startup_calls>>
    /\ UNCHANGED <<envvars, suitevars, fsvars, rtvars, loadvars, monvars, clockvars,
                   fnvars, uctvars>>

\* lines 680-685: the dict gets its run_id and joins all_results; time.sleep(5)
StartupCollect ==
    /\ startup_pc = "returned"
    /\ startup_results' = Append(startup_results,
                                 [run_id |-> startup_run_id] @@ startup_ret)
    /\ now' = now + 1
    /\ IF startup_idx < Len(startup_args.frameworks)
       THEN startup_idx' = startup_idx + 1 /\ UNCHANGED startup_run_id
       ELSE startup_idx' = 1 /\ startup_run_id' = startup_run_id + 1
    /\ startup_pc' = "round"
    /\ UNCHANGED <<startup_args, startup_clock, probe_began, startup_ret, startup_calls>>
    /\ UNCHANGED <<envvars, suitevars, files, rtvars, loadvars, monvars, clockvars,
                   fnvars, uctvars>>

\* lines 688-693: all_results is written to startup_times_{timestamp}.json
StartupSave ==
    /\ startup_pc = "save"
    /\ files' = WriteFile(files,
                   [name    |-> StartupTimesName(now),
                    ext     |-> "json",
                    is_list |-> TRUE,
                    data    |-> startup_results,
                    by      |-> "run_startup_benchmark"])
    /\ startup_pc' = "done"
    /\ UNCHANGED <<startup_args, startup_run_id, startup_idx, startup_clock, probe_began,
                   startup_ret, startup_results, startup_calls>>
    /\ UNCHANGED <<envvars, suitevars, now, rtvars, loadvars, monvars, clockvars,
                   fnvars, uctvars>>

-----------------------------------------------------------------------------
(* UniversalCarbonTest: the Python load tester and compile_results
   (universal_carbon_test.py:162-240, 284-313).  Only the counters and the response
   times of perf_data are kept; the throughput and the percentiles are left out. *)

MaxUsers == 2         \* concurrent_users: worker threads
MaxTicks == 2         \* self.duration, counted in clock ticks
MaxAttempts == 3      \* requests.get calls of all workers together

UCT_LATENCY == 12     \* (req_end - req_start) * 1000 of an answered request

RequestOutcomes == {"ok", "other_status", "raised"}

FreshLocal == [requests |-> 0, errors |-> 0, response_times |-> <<>>, state |-> "loop"]

Attempted == attempts.ok + attempts.other_status + attempts.raised

\* worker, the body of the loop (lines 179-191): local_results after one request
WorkerRequest(local, outcome) ==
    CASE outcome = "ok" ->
           [local EXCEPT !.requests = @ + 1,
                         !.response_times = Append(@, UCT_LATENCY)]
      [] outcome = "other_status" ->
           [local EXCEPT !.requests = @ + 1,
                         !.response_times = Append(@, UCT_LATENCY),
                         !.errors = @ + 1]
      [] outcome = "raised" ->
           [local EXCEPT !.errors = @ + 1]

RECURSIVE SumField(_, _)
\* the sums of the aggregation loop (lines 218-222)
SumField(q, field) ==
    IF q = <<>> THEN 0 ELSE q[1][field] + SumField(Tail(q), field)

RECURSIVE AllTimes(_)
AllTimes(q) == IF q = <<>> THEN <<>> ELSE q[1].response_times \o AllTimes(Tail(q))

\* _python_load_test, lines 213-240: what is returned for the queue of local results
PythonLoadResult(q) ==
    IF AllTimes(q) = <<>> THEN EmptyDict
    ELSE [total_requests       |-> SumField(q, "requests"),
          failed_requests      |-> SumField(q, "errors"),
          avg_response_time_ms |-> SeqSum(AllTimes(q)) \div Len(AllTimes(q))]

\* compile_results, the "performance" section (lines 304-309)
CompileResults(perf) ==
    [total_requests       |-> perf.total_requests,
     successful_requests  |-> perf.total_requests - perf.failed_requests,
     failed_requests      |-> perf.failed_requests,
     avg_response_time_ms |-> perf.avg_response_time_ms]

\* worker: `while time.time() < end_time` holds and one request is made
UctRequest ==
    /\ uct_pc = "workers"
    /\ time_left > 0
    /\ Attempted < MaxAttempts
    /\ \E w \in 1..Len(workers), outcome \in RequestOutcomes :
         /\ workers[w].state = "loop"
         /\ workers' = [workers EXCEPT ![w] = WorkerRequest(@, outcome)]
         /\ attempts' = [attempts EXCEPT ![outcome] = @ + 1]
    /\ UNCHANGED <<uct_pc, time_left, results_queue, perf_data, performance>>
    /\ UNCHANGED <<envvars, suitevars, fsvars, rtvars, loadvars, monvars, clockvars,
                   fnvars, startvars>>

\* time passes until end_time
UctTick ==
    /\ uct_pc = "workers"
    /\ time_left > 0
    /\ time_left' = time_left - 1
    /\ UNCHANGED <<uct_pc, workers, results_queue, attempts, perf_data, performance>>
    /\ UNCHANGED <<envvars, suitevars, fsvars, rtvars, loadvars, monvars, clockvars,
                   fnvars, startvars>>

\* worker: the loop ends and results_queue.put(local_results) (line 193)
UctWorkerExit ==
    /\ uct_pc = "workers"
    /\ time_left = 0
    /\ \E w \in 1..Len(workers) :
         /\ workers[w].state = "loop"
         /\ workers' = [workers EXCEPT ![w].state = "done"]
         /\ results_queue' = Append(results_queue,
                                    [requests       |-> workers[w].requests,
                                     errors         |-> workers[w].errors,
                                     response_times |-> workers[w].response_times])
    /\ UNCHANGED <<uct_pc, time_left, attempts, perf_data, performance>>
    /\ UNCHANGED <<envvars, suitevars, fsvars, rtvars, loadvars, monvars, clockvars,
                   fnvars, startvars>>

\* lines 203-240: the progress loop is over, every thread is joined, the queue is
\* drained and the result returned
UctAggregate ==
    /\ uct_pc = "workers"
    /\ time_left = 0
    /\ \A w \in 1..Len(workers) : workers[w].state = "done"
    /\ perf_data' = PythonLoadResult(results_queue)
    /\ results_queue' = <<>>
    /\ uct_pc' = "returned"
    /\ UNCHANGED <<time_left, workers, attempts, performance>>
    /\ UNCHANGED <<envvars, suitevars, fsvars, rtvars, loadvars, monvars, clockvars,
                   fnvars, startvars>>

\* run_test, lines 77-84: an empty perf_data ends the run, any other is compiled
UctCompile ==
    /\ uct_pc = "returned"
    /\ IF perf_data = EmptyDict
       THEN uct_pc' = "failed" /\ UNCHANGED performance
       ELSE uct_pc' = "compiled" /\ performance' = CompileResults(perf_data)
    /\ UNCHANGED <<time_left, workers, results_queue, attempts, perf_data>>
    /\ UNCHANGED <<envvars, suitevars, fsvars, rtvars, loadvars, monvars, clockvars,
                   fnvars, startvars>>

-----------------------------------------------------------------------------
(* Initial states *)

Prefix(s, n) == SubSeq(s, 1, Min(n, Len(s)))

\* the small loads a suite of the exploration runs
SuiteLoads == <<1, 2, 3>>

\* loads of the load-driver runs: both sides of the 100 boundary and two widths
DriverLoads == {1, 2, 100, 101, 110}

IdleRunTest ==
    /\ pc = "idle" /\ rt = NoArgs /\ tracker_on = FALSE
    /\ test_duration = NoneNum /\ actual_duration = NoneNum
    /\ padding_seconds = NoneNum /\ total_tracked_duration = NoneNum
    /\ energy_metadata = NoMeta /\ reliability = NoneStr
    /\ container_metrics = NoMetrics /\ record = NoRecord
    /\ ret = "pending" /\ trace = <<>> /\ saved = 0

IdleLoad ==
    /\ results = FreshResults /\ mode = "none" /\ i = 0 /\ max_workers = 0
    /\ queued = 0 /\ running = 0 /\ done = NoDone /\ issued = 0 /\ result = NoResult

IdleMonitor ==
    /\ mon_running = FALSE /\ thread = "none"
    /\ cpu_samples = <<>> /\ mem_samples = <<>> /\ mon_error = NoneStr
    /\ failed_queries = {}
    /\ query_elapsed = 0 /\ elapsed = 0 /\ slept = FALSE /\ join_elapsed = 0
    /\ late_samples = 0

IdleStartup ==
    /\ startup_args = NoStartArgs /\ startup_pc = "none" /\ startup_run_id = 0
    /\ startup_idx = 0 /\ startup_clock = 0 /\ probe_began = 0
    /\ startup_ret = NoStartRecord /\ startup_results = <<>> /\ startup_calls = <<>>

NoPerf == [fn |-> "none"]

IdleUct ==
    /\ uct_pc = "none" /\ time_left = 0 /\ workers = <<>> /\ results_queue = <<>>
    /\ attempts = [ok |-> 0, other_status |-> 0, raised |-> 0]
    /\ perf_data = NoPerf /\ performance = NoPerf

NoClsRecord ==
    [measurement_reliability |-> NoneStr, energy_metadata_reliability |-> NoneStr,
     total_tracked_duration_seconds |-> NoneNum, duration_seconds |-> NoneNum]

NoLabels == [tracker |-> NoneStr, fallback |-> NoneStr]

NoInput == [fn |-> "none"]
NoOutput == [fn |-> "none"]

IdleAnalysis == an_in = NoInput /\ an_out = NoOutput

IdleFn ==
    /\ stats = NoStats /\ cls_record = NoClsRecord /\ cls_duration = NoneNum
    /\ cls_out = NoLabels /\ fn_pc = "none"
    /\ IdleAnalysis

IdleSuite ==
    /\ suite_args = [frameworks |-> <<>>, loads |-> <<>>, endpoints |-> <<>>,
                     num_runs |-> 0, min_duration |-> 0]
    /\ configs = <<>> /\ run_id = 0 /\ cfg_idx = 0 /\ current_test = 0
    /\ all_results = <<>> /\ spc = "none" /\ calls = <<>>
    /\ files = {} /\ now = 0

\* run_comparison_suite is called on an empty result directory
SuiteCalled(fws, lds, eps, runs, min_dur) ==
    /\ suite_args = [frameworks |-> fws, loads |-> lds, endpoints |-> eps,
                     num_runs |-> runs, min_duration |-> min_dur]
    /\ configs = <<>> /\ run_id = 0 /\ cfg_idx = 0 /\ current_test = 0
    /\ all_results = <<>> /\ spc = "build" /\ calls = <<>>
    /\ files = {} /\ now = 0

\* Suites of a few configurations and rounds.  Health probes, one request and one
\* telemetry read may fail; no docker query completes before stop().
Init ==
    /\ \E nf \in 1..MaxFrameworks, nl \in 1..MaxLoads, ne \in 1..MaxEndpoints,
          runs \in 1..MaxRuns, min_dur \in {0, 15000} :
         /\ nf * nl * ne * runs <= MaxTests
         /\ SuiteCalled(Prefix(FrameworkKeys, nf), Prefix(SuiteLoads, nl),
                        Prefix(EndpointNames, ne), runs, min_dur)
    /\ env = [latencies |-> {12}, durations |-> {4000}]
    /\ budget = [errors |-> 1, probes |-> MaxProbeFailures, polls |-> 0, telemetry |-> 1, starts |-> 0]
    /\ IdleRunTest /\ IdleLoad /\ IdleMonitor /\ IdleFn
    /\ IdleStartup /\ IdleUct

Next ==
    \/ SuiteBuild \/ SuiteCall \/ SuiteCollect \/ SaveCombined
    \/ CheckHealth \/ Warmup \/ TrackerStart \/ MonitorStart
    \/ LoadDispatch \/ SeqRequest \/ SeqReturn
    \/ MonitorStopBegin \/ MonitorStopReturn
    \/ PadBegin \/ PadEnd \/ TrackerStop \/ ExtractEnergy \/ Compile \/ Save
    \/ PollLoopTest

Spec == Init /\ [][Next]_vars

\* One configuration run once or twice, with the monitor's clock: the docker
\* queries of the polling thread complete, time out or fail.
InitRun ==
    /\ \E runs \in 1..2, min_dur \in {0, 15000} :
         SuiteCalled(<<"fastapi">>, <<1>>, <<"light">>, runs, min_dur)
    /\ env = [latencies |-> {12}, durations |-> {4000}]
    /\ budget = [errors |-> 0, probes |-> 0, polls |-> MaxPolls, telemetry |-> 0, starts |-> 0]
    /\ IdleRunTest /\ IdleLoad /\ IdleMonitor /\ IdleFn
    /\ IdleStartup /\ IdleUct

NextRun ==
    \/ SuiteBuild \/ SuiteCall \/ SuiteCollect \/ SaveCombined
    \/ CheckHealth \/ Warmup \/ TrackerStart \/ MonitorStart
    \/ LoadDispatch \/ SeqRequest \/ SeqReturn
    \/ MonitorStopBegin \/ MonitorStopReturn
    \/ PadBegin \/ PadEnd \/ TrackerStop \/ ExtractEnergy \/ Compile \/ Save
    \/ PollLoopTest \/ PollQueryReturn \/ PollSleepTest \/ PollSleepReturn \/ Tick

SpecRun == InitRun /\ [][NextRun]_vars

\* ---- one configuration run once or twice with load phases on both sides of the
\* minimum duration and of the reliability thresholds; the telemetry may fail once

\* load-phase durations in ms: short, just under 15 s, 15 s, longer
PadDurations == {4000, 14996, 15000, 16000}
MinDurations == {0, 5000, 15000}

InitPad ==
    /\ \E runs \in 1..2, min_dur \in MinDurations :
         SuiteCalled(<<"fastapi">>, <<1>>, <<"light">>, runs, min_dur)
    /\ env = [latencies |-> {12}, durations |-> PadDurations]
    /\ budget = [errors |-> 0, probes |-> 0, polls |-> 0, telemetry |-> 1, starts |-> 0]
    /\ IdleRunTest /\ IdleLoad /\ IdleMonitor /\ IdleFn
    /\ IdleStartup /\ IdleUct

SpecPad == InitPad /\ [][Next]_vars

\* ---- the executions of SpecRun under fair scheduling: the main thread and the
\* polling thread both get to run and time passes; a docker query may also block
\* beyond its timeout

RunTestStep ==
    \/ CheckHealth \/ Warmup \/ TrackerStart \/ MonitorStart
    \/ LoadDispatch \/ SeqRequest \/ SeqReturn
    \/ MonitorStopBegin \/ MonitorStopReturn
    \/ PadBegin \/ PadEnd \/ TrackerStop \/ ExtractEnergy \/ Compile \/ Save

PollStep == PollLoopTest \/ PollQueryReturn \/ PollSleepTest \/ PollSleepReturn

NextLive == NextRun \/ PollQueryHang \/ JoinTick

\* docker queries the monitor of the fair executions starts
MaxLivePolls == 1

InitLive ==
    /\ \E min_dur \in {0, 15000} :
         SuiteCalled(<<"fastapi">>, <<1>>, <<"light">>, 1, min_dur)
    /\ env = [latencies |-> {12}, durations |-> {4000}]
    /\ budget = [errors |-> 0, probes |-> 1, polls |-> MaxLivePolls, telemetry |-> 0,
                 starts |-> 0]
    /\ IdleRunTest /\ IdleLoad /\ IdleMonitor /\ IdleFn
    /\ IdleStartup /\ IdleUct

SpecLive ==
    /\ InitLive /\ [][NextLive]_vars
    /\ WF_vars(RunTestStep) /\ WF_vars(PollStep) /\ WF_vars(Tick) /\ WF_vars(JoinTick)

\* One run_test call per load of DriverLoads, sequential or through the pool;
\* up to MaxErrors requests fail.
InitLoad ==
    /\ \E load \in DriverLoads, min_dur \in {0, 15000} :
         SuiteCalled(<<"fastapi">>, <<load>>, <<"light">>, 1, min_dur)
    /\ env = [latencies |-> {12}, durations |-> {4000}]
    /\ budget = [errors |-> MaxErrors, probes |-> 0, polls |-> 0, telemetry |-> 0, starts |-> 0]
    /\ IdleRunTest /\ IdleLoad /\ IdleMonitor /\ IdleFn
    /\ IdleStartup /\ IdleUct

NextLoad ==
    \/ SuiteBuild \/ SuiteCall \/ SuiteCollect \/ SaveCombined
    \/ CheckHealth \/ Warmup \/ TrackerStart \/ MonitorStart
    \/ LoadDispatch \/ SeqRequest \/ SeqReturn
    \/ WorkerStart \/ WorkerFinish \/ ConcCollect \/ ConcReturn
    \/ MonitorStopBegin \/ MonitorStopReturn
    \/ PadBegin \/ PadEnd \/ TrackerStop \/ ExtractEnergy \/ Compile \/ Save
    \/ PollLoopTest

SpecLoad == InitLoad /\ [][NextLoad]_vars

\* The two classifiers on every duration of 0..MaxDurMs.  The record handed to
\* _extract_reliability has no label; it is a record of an older format (only
\* duration_seconds), or one with both durations, padded or not.
InitClassify ==
    /\ \E d \in 0..MaxDurMs, shape \in {"legacy", "unpadded", "padded"} :
         /\ cls_duration = d
         /\ cls_record =
              [measurement_reliability |-> NoneStr,
               energy_metadata_reliability |-> NoneStr,
               total_tracked_duration_seconds |-> IF shape = "legacy" THEN NoneNum ELSE d,
               duration_seconds |-> IF shape = "padded" THEN d \div 2 ELSE d]
    /\ cls_out = NoLabels /\ stats = NoStats /\ fn_pc = "classify"
    /\ IdleAnalysis
    /\ env = [latencies |-> {}, durations |-> {}]
    /\ budget = [errors |-> 0, probes |-> 0, polls |-> 0, telemetry |-> 0, starts |-> 0]
    /\ IdleSuite /\ IdleRunTest /\ IdleLoad /\ IdleMonitor
    /\ IdleStartup /\ IdleUct

NextClassify == Classify

SpecClassify == InitClassify /\ [][NextClassify]_vars

\* the values a record may hold, or lack, under the keys _extract_reliability reads
RecordLabels == {NoneStr, "", "reliable", "marginal", "unreliable", "unknown"}
RecordDurations == {NoneNum, 0, 4999, 5000, 15000}

\* analyze_results._extract_reliability on records of every shape
InitExtract ==
    /\ \E top \in RecordLabels, nested \in RecordLabels,
          total \in RecordDurations, dur \in RecordDurations :
         cls_record = [measurement_reliability |-> top,
                       energy_metadata_reliability |-> nested,
                       total_tracked_duration_seconds |-> total,
                       duration_seconds |-> dur]
    /\ cls_duration = 0
    /\ cls_out = NoLabels /\ stats = NoStats /\ fn_pc = "classify"
    /\ IdleAnalysis
    /\ env = [latencies |-> {}, durations |-> {}]
    /\ budget = [errors |-> 0, probes |-> 0, polls |-> 0, telemetry |-> 0, starts |-> 0]
    /\ IdleSuite /\ IdleRunTest /\ IdleLoad /\ IdleMonitor
    /\ IdleStartup /\ IdleUct

SpecExtract == InitExtract /\ [][NextClassify]_vars

\* get_statistics on samples of up to three runs of equal response times, in any
\* order: lengths 0..2*MaxBlock+MaxTail, times 0..MaxTime
InitStats ==
    /\ \E a, b, c \in 0..MaxTime, la, lb \in 0..MaxBlock, lc \in 0..MaxTail :
         /\ (la = 0) => (a = 0)
         /\ (lb = 0) => (b = 0)
         /\ (lc = 0) => (c = 0)
         /\ results = [success        |-> la + lb + lc,
                       errors         |-> 0,
                       response_times |-> Repeat(a, la) \o Repeat(b, lb) \o Repeat(c, lc)]
    /\ mode = "none" /\ i = 0 /\ max_workers = 0
    /\ queued = 0 /\ running = 0 /\ done = NoDone /\ issued = 0 /\ result = NoResult
    /\ stats = NoStats /\ cls_record = NoClsRecord /\ cls_duration = NoneNum
    /\ cls_out = NoLabels /\ fn_pc = "statistics"
    /\ IdleAnalysis
    /\ env = [latencies |-> {}, durations |-> {}]
    /\ budget = [errors |-> 0, probes |-> 0, polls |-> 0, telemetry |-> 0, starts |-> 0]
    /\ IdleSuite /\ IdleRunTest /\ IdleMonitor
    /\ IdleStartup /\ IdleUct

NextStats == Statistics

SpecStats == InitStats /\ [][NextStats]_vars

\* ---- determine_statistical_winner on small tables of observations

MaxObs == 2               \* observations of one subject

AnSubjects == {"django", "fastapi", "gin"}
ObsValues == {1, 3}

\* the lists of observations of one subject (in ascending order)
ObsLists ==
    {v \in UNION {[1..n -> ObsValues] : n \in 1..MaxObs} :
        \A j \in 1..(Len(v) - 1) : v[j] <= v[j + 1]}

\* the dicts {framework_key: [values]}, each in the order of its keys: the keys
\* were inserted in alphabetical order or in the reverse of it
GroupTables ==
    {g \in UNION {[1..n -> [key : AnSubjects, vals : ObsLists]] :
                    n \in 0..Cardinality(AnSubjects)} :
        \/ \A j, k \in 1..Len(g) :
             (j < k) => (SubjectRank(g[j].key) < SubjectRank(g[k].key))
        \/ \A j, k \in 1..Len(g) :
             (j < k) => (SubjectRank(g[j].key) > SubjectRank(g[k].key))}

\* build_reliability_summary()["overall"], or no counts at all
Counts(r, m, u, k) == [reliable |-> r, marginal |-> m, unreliable |-> u, unknown |-> k]

ReliabilityCounts ==
    {NoCounts, Counts(0, 0, 0, 0), Counts(1, 1, 0, 0), Counts(0, 0, 2, 0),
     Counts(1, 0, 2, 0), Counts(0, 0, 2, 1)}

\* the p-values ttest_ind may return
TTestOutcomes == {NaN, 0, ALPHA - 1, ALPHA, ALPHA + 4}

Directions == {"lower", "higher"}

InitWinner ==
    /\ \E g \in GroupTables, d \in Directions, c \in ReliabilityCounts,
          sc \in BOOLEAN, pv \in TTestOutcomes :
         /\ (~RunsTest(g, d, sc)) => (pv = NaN)
         /\ an_in = [fn |-> "winner", groups |-> g, direction |-> d, counts |-> c,
                     has_scipy |-> sc, ttest_p |-> pv]
    /\ an_out = NoOutput
    /\ fn_pc = "winner"
    /\ stats = NoStats /\ cls_record = NoClsRecord /\ cls_duration = NoneNum
    /\ cls_out = NoLabels
    /\ env = [latencies |-> {}, durations |-> {}]
    /\ budget = [errors |-> 0, probes |-> 0, polls |-> 0, telemetry |-> 0, starts |-> 0]
    /\ IdleSuite /\ IdleRunTest /\ IdleLoad /\ IdleMonitor
    /\ IdleStartup /\ IdleUct

NextWinner == Winner

SpecWinner == InitWinner /\ [][NextWinner]_vars

\* ---- run_anova and run_pairwise_tests on the same tables

\* the p-values f_oneway may return
AnovaOutcomes == {NaN, ALPHA - 1, ALPHA}

\* the p-values ttest_ind may return for one pair: NaN, 0.0166666, 0.02, 0.4
PairOutcomes == {NaN, 166666, 200000, 4000000}

InitTests ==
    /\ \E g \in GroupTables, sc \in BOOLEAN :
         \/ /\ fn_pc = "anova"
            /\ \E pv \in AnovaOutcomes :
                 /\ (~AnovaRunsTest(g, sc)) => (pv = NaN)
                 /\ an_in = [fn |-> "anova", groups |-> g, has_scipy |-> sc,
                             anova_p |-> pv]
         \/ /\ fn_pc = "pairwise"
            /\ \E tt \in [1..Len(Pairs(g)) -> PairOutcomes] :
                 /\ \A r \in 1..Len(Pairs(g)) :
                      (~(sc /\ PairTested(g[Pairs(g)[r][1]], g[Pairs(g)[r][2]])))
                          => (tt[r] = NaN)
                 /\ an_in = [fn |-> "pairwise", groups |-> g, has_scipy |-> sc,
                             ttest |-> tt]
    /\ an_out = NoOutput
    /\ stats = NoStats /\ cls_record = NoClsRecord /\ cls_duration = NoneNum
    /\ cls_out = NoLabels
    /\ env = [latencies |-> {}, durations |-> {}]
    /\ budget = [errors |-> 0, probes |-> 0, polls |-> 0, telemetry |-> 0, starts |-> 0]
    /\ IdleSuite /\ IdleRunTest /\ IdleLoad /\ IdleMonitor
    /\ IdleStartup /\ IdleUct

NextTests == Anova \/ Pairwise

SpecTests == InitTests /\ [][NextTests]_vars

\* ---- the four operations of the statistics engine, with and without scipy

\* result dicts as far as the engine reads them: the emissions and the throughput
AnalysisRecords == [emissions_g : ObsValues, requests_per_second : ObsValues]

\* the critical values sp_stats.t.ppf may return: 12.706 and 4.303
TPpfOutcomes == {12706, 4303}

InitBackend ==
    /\ \E sc \in BOOLEAN :
         \/ /\ fn_pc = "describe"
            /\ \E rs \in UNION {[1..n -> AnalysisRecords] : n \in 0..MaxObs},
                  t \in TPpfOutcomes :
                 /\ (~(sc /\ Len(rs) >= 2)) => (t = 12706)
                 /\ an_in = [fn |-> "describe", results |-> rs, has_scipy |-> sc,
                             t_ppf |-> t]
         \/ \E g \in GroupTables :
              \/ /\ fn_pc = "anova"
                 /\ an_in = [fn |-> "anova", groups |-> g, has_scipy |-> sc,
                             anova_p |-> IF AnovaRunsTest(g, sc) THEN ALPHA - 1 ELSE NaN]
              \/ /\ fn_pc = "pairwise"
                 /\ an_in = [fn |-> "pairwise", groups |-> g, has_scipy |-> sc,
                             ttest |-> [r \in 1..Len(Pairs(g)) |->
                                 IF sc /\ PairTested(g[Pairs(g)[r][1]], g[Pairs(g)[r][2]])
                                 THEN ALPHA - 1 ELSE NaN]]
              \/ /\ fn_pc = "winner"
                 /\ an_in = [fn |-> "winner", groups |-> g, direction |-> "lower",
                             counts |-> NoCounts, has_scipy |-> sc,
                             ttest_p |-> IF RunsTest(g, "lower", sc)
                                         THEN ALPHA - 1 ELSE NaN]
    /\ an_out = NoOutput
    /\ stats = NoStats /\ cls_record = NoClsRecord /\ cls_duration = NoneNum
    /\ cls_out = NoLabels
    /\ env = [latencies |-> {}, durations |-> {}]
    /\ budget = [errors |-> 0, probes |-> 0, polls |-> 0, telemetry |-> 0, starts |-> 0]
    /\ IdleSuite /\ IdleRunTest /\ IdleLoad /\ IdleMonitor
    /\ IdleStartup /\ IdleUct

NextBackend == Describe \/ Anova \/ Pairwise \/ Winner

SpecBackend == InitBackend /\ [][NextBackend]_vars

\* ---- the Python load tester with one or two worker threads; requests are
\* answered with 200 or another status, or raise

InitUct ==
    /\ \E users \in 1..MaxUsers, duration \in 1..MaxTicks :
         /\ workers = [w \in 1..users |-> FreshLocal]
         /\ time_left = duration
    /\ uct_pc = "workers"
    /\ results_queue = <<>>
    /\ attempts = [ok |-> 0, other_status |-> 0, raised |-> 0]
    /\ perf_data = NoPerf /\ performance = NoPerf
    /\ env = [latencies |-> {}, durations |-> {}]
    /\ budget = [errors |-> 0, probes |-> 0, polls |-> 0, telemetry |-> 0, starts |-> 0]
    /\ IdleSuite /\ IdleRunTest /\ IdleLoad /\ IdleMonitor /\ IdleFn /\ IdleStartup

NextUct == UctRequest \/ UctTick \/ UctWorkerExit \/ UctAggregate \/ UctCompile

SpecUct == InitUct /\ [][NextUct]_vars

\* ---- the statistical section of a report on small tables, with scipy

\* the p-values of the pairs that are tested: 0.0166666, 0.02 and 0.4
ReportOutcomes == {166666, 200000, 4000000}

\* fw_groups (_build_framework_metric_groups); the exploration takes the tables whose
\* subjects were first met in the order of their keys
ReportTables ==
    {g \in GroupTables :
        \A j, k \in 1..Len(g) : (j < k) => (SubjectRank(g[j].key) < SubjectRank(g[k].key))}

InitReport ==
    /\ \E g \in ReportTables, d \in Directions :
         \E tt \in [1..Len(Pairs(g)) -> ReportOutcomes \cup {NaN}] :
           /\ \A r \in 1..Len(Pairs(g)) :
                (tt[r] = NaN) = ~PairTested(g[Pairs(g)[r][1]], g[Pairs(g)[r][2]])
           /\ an_in = [fn |-> "report", groups |-> g, direction |-> d,
                       counts |-> NoCounts, has_scipy |-> TRUE, ttest |-> tt]
    /\ fn_pc = "report"
    /\ an_out = NoOutput
    /\ stats = NoStats /\ cls_record = NoClsRecord /\ cls_duration = NoneNum
    /\ cls_out = NoLabels
    /\ env = [latencies |-> {}, durations |-> {}]
    /\ budget = [errors |-> 0, probes |-> 0, polls |-> 0, telemetry |-> 0, starts |-> 0]
    /\ IdleSuite /\ IdleRunTest /\ IdleLoad /\ IdleMonitor
    /\ IdleStartup /\ IdleUct

NextReport == ReportPairwise \/ ReportWinner

SpecReport == InitReport /\ [][NextReport]_vars

\* ---- run_startup_benchmark on one or two subjects for one or two rounds; docker
\* commands may raise and health probes may fail or take their time

StartupCalled(fws, runs, timeout) ==
    /\ startup_args = [frameworks |-> fws, num_runs |-> runs, timeout |-> timeout]
    /\ startup_pc = "round" /\ startup_run_id = 1 /\ startup_idx = 1
    /\ startup_clock = 0 /\ probe_began = 0
    /\ startup_ret = NoStartRecord /\ startup_results = <<>> /\ startup_calls = <<>>

InitStartup ==
    /\ \E nf \in 1..MaxStartFrameworks, runs \in 1..MaxStartRuns,
          timeout \in {2, MaxStartTimeout} :
         StartupCalled(Prefix(FrameworkKeys, nf), runs, timeout)
    /\ env = [latencies |-> {}, durations |-> {}]
    /\ budget = [errors |-> 0, probes |-> 0, polls |-> 0, telemetry |-> 0,
                 starts |-> MaxStartFaults]
    /\ IdleSuite /\ IdleRunTest /\ IdleLoad /\ IdleMonitor /\ IdleFn /\ IdleUct

NextStartup ==
    \/ StartupLoop \/ StartupStop \/ StartupStart \/ StartupPollTest
    \/ StartupProbe \/ StartupSleep \/ StartupCollect \/ StartupSave

SpecStartup == InitStartup /\ [][NextStartup]_vars

\* ---- a suite of one configuration and a cold-start benchmark of one or two
\* subjects write into the same result directory

InitShared ==
    /\ SuiteCalled(<<"fastapi">>, <<1>>, <<"light">>, 1, 15000)
    /\ \E nf \in 1..MaxStartFrameworks :
         StartupCalled(Prefix(FrameworkKeys, nf), 1, MaxStartTimeout)
    /\ env = [latencies |-> {12}, durations |-> {4000}]
    /\ budget = [errors |-> 0, probes |-> 0, polls |-> 0, telemetry |-> 0, starts |-> 1]
    /\ IdleRunTest /\ IdleLoad /\ IdleMonitor /\ IdleFn /\ IdleUct

NextShared == Next \/ NextStartup

SpecShared == InitShared /\ [][NextShared]_vars

-----------------------------------------------------------------------------
(* Properties *)

\* run_test is past the load phase of the current execution
LoadReturned ==
    \/ pc \in {"monitor_stop", "joining", "pad", "padding", "tracker_stop",
               "extract", "compile", "save"}
    \/ pc = "returned" /\ ret = "record"

IsPrefix(s, t) == Len(s) <= Len(t) /\ SubSeq(t, 1, Len(s)) = s

\* C1: when run_sequential or run_concurrent has returned, success + errors equals
\* the load size, whatever the request outcomes and the order in which the workers
\* finish; the compiled record has success_count + error_count = load_size.
C1_CountsAddUp ==
    /\ LoadReturned => results.success + results.errors = rt.load_size
    /\ record # NoRecord => record.success_count + record.error_count = record.load_size
    /\ \A k \in 1..Len(all_results) :
         all_results[k].success_count + all_results[k].error_count
           = all_results[k].load_size

C1_Witness ==
    /\ pc = "save" /\ mode = "concurrent"
    /\ record.load_size = 101
    /\ record.error_count = MaxErrors
    /\ record.success_count = 101 - MaxErrors

\* C2: run_test is called in round-robin order over the cartesian configuration
\* list: call n is configuration ((n-1) mod k)+1 in round ((n-1) div k)+1, so each
\* configuration runs once per round and a round starts only when the one before
\* is complete.
C2_RoundRobin ==
    LET fws == suite_args.frameworks
        lds == suite_args.loads
        eps == suite_args.endpoints
        k   == Len(configs)
    IN  spc \notin {"none", "build"} =>
          /\ k = Len(fws) * Len(lds) * Len(eps)
          /\ \A a \in 1..Len(fws), b \in 1..Len(lds), c \in 1..Len(eps) :
               configs[((a - 1) * Len(lds) + (b - 1)) * Len(eps) + c]
                 = [framework |-> fws[a], load |-> lds[b], endpoint_name |-> eps[c]]
          /\ \A n \in 1..Len(calls) :
               /\ calls[n].config = configs[((n - 1) % k) + 1]
               /\ calls[n].run_id = ((n - 1) \div k) + 1
          /\ Len(calls) <= k * suite_args.num_runs
          /\ spc \in {"combine", "done"} => Len(calls) = k * suite_args.num_runs

C2_Witness ==
    /\ spc = "done"
    /\ Len(configs) = 2 /\ suite_args.num_runs = 2
    /\ Len(calls) = 4
    /\ calls[2].config.framework = "django" /\ calls[2].run_id = 1
    /\ calls[3].config.framework = "fastapi" /\ calls[3].run_id = 2

\* C3: with the combined file and the individual files of a suite in one
\* directory, load_test_results returns every run record exactly once; no file
\* written by save_results has the comparison_suite_ prefix.
C3_LoadedOnce ==
    spc = "done" =>
      LET loaded     == LoadTestResults(files)
          individual == {f \in files : f.by = "save_results"}
      IN  /\ \A f \in individual : ~StartsWith(f.name, SUITE_PREFIX)
          /\ Len(loaded) = Cardinality(individual)
          /\ \A f \in individual : Count(f.data[1], loaded) = 1
          /\ \A k \in 1..Len(all_results) : Count(all_results[k], loaded) = 1

C3_Witness ==
    /\ spc = "done"
    /\ \E f \in files :
         /\ f.by = "run_comparison_suite"
         /\ Len(f.data) >= 2
         /\ Cardinality({g \in files : g.by = "save_results"}) = Len(f.data)
    /\ Len(LoadTestResults(files)) = Len(all_results)

\* C4: a duration is reliable iff it is at least 15 s, marginal iff it is at least
\* 5 s and below 15 s, unreliable iff it is below 5 s; the classifier of
\* extract_energy_metadata and the duration fallback of _extract_reliability give
\* the same label.
C4_SameLabel ==
    fn_pc = "classified" =>
      /\ cls_out.tracker = cls_out.fallback
      /\ cls_out.tracker \in {"reliable", "marginal", "unreliable"}
      /\ (cls_out.tracker = "reliable") <=> (cls_duration >= 15000)
      /\ (cls_out.tracker = "marginal") <=> (cls_duration >= 5000 /\ cls_duration < 15000)
      /\ (cls_out.tracker = "unreliable") <=> (cls_duration < 5000)

C4_Witness ==
    /\ fn_pc = "classified"
    /\ cls_duration = 15000
    /\ cls_record.total_tracked_duration_seconds = NoneNum
    /\ cls_out = [tracker |-> "reliable", fallback |-> "reliable"]

\* C5: for a non-empty sample get_statistics returns median_ms <= p95_ms <= p99_ms;
\* p95_ms and p99_ms are the rounded elements of the sorted sample at the indices
\* floor(0.95*len) and floor(0.99*len), which lie inside the sample.
C5_Percentiles ==
    (fn_pc = "statistics_done" /\ results.response_times # <<>>) =>
      LET times == results.response_times
          n     == Len(times)
          k95   == (95 * n) \div 100
          k99   == (99 * n) \div 100
          \* x is the element at 0-based index k of the sample put in order
          AtRank(x, k) ==
              /\ Cardinality({j \in 1..n : times[j] < x}) <= k
              /\ Cardinality({j \in 1..n : times[j] <= x}) > k
      IN  /\ k95 >= 0 /\ k95 < n /\ k99 >= 0 /\ k99 < n
          /\ stats.median_ms <= stats.p95_ms
          /\ stats.p95_ms <= stats.p99_ms
          /\ \E j \in 1..n : AtRank(times[j], k95) /\ stats.p95_ms = Round2(times[j])
          /\ \E j \in 1..n : AtRank(times[j], k99) /\ stats.p99_ms = Round2(times[j])

C5_Witness ==
    /\ fn_pc = "statistics_done"
    /\ Len(results.response_times) >= 21
    /\ results.response_times # Sorted(results.response_times)
    /\ stats.median_ms < stats.p99_ms
    /\ stats.p95_ms < stats.p99_ms

\* C6: an execution whose health probe fails takes no further step: the tracker
\* and the monitor are not started, no file is written and no record is added;
\* the suite still calls run_test for every (configuration, round) pair.
C6_ProbeAbort ==
    /\ (trace # <<>> /\ trace[1] = "health_fail") =>
         /\ trace = <<"health_fail">>
         /\ pc \in {"returned", "idle"}
         /\ ret = "None" /\ saved = 0
         /\ ~tracker_on /\ ~mon_running /\ thread = "none"
    /\ Cardinality({f \in files : f.by = "save_results"})
         = Len(all_results) + (IF pc = "returned" /\ ret = "record" THEN 1 ELSE 0)
    /\ spc \in {"loop", "combine", "done"} =>
         Len(all_results) = Len(calls) - (MaxProbeFailures - budget.probes)
    /\ spc = "done" => Len(calls) = Len(configs) * suite_args.num_runs

C6_Witness ==
    /\ spc = "done"
    /\ Len(calls) = 4
    /\ budget.probes = MaxProbeFailures - 1
    /\ Len(all_results) = 3
    /\ all_results[1].framework_key = calls[2].config.framework
    /\ all_results[1].framework_key # calls[1].config.framework

StepsUnpadded ==
    <<"health_ok", "warmup", "tracker_start", "monitor_start", "load", "monitor_stop",
      "tracker_stop", "classify", "compile", "persist">>

StepsPadded ==
    <<"health_ok", "warmup", "tracker_start", "monitor_start", "load", "monitor_stop",
      "pad", "tracker_stop", "classify", "compile", "persist">>

\* C7: an execution that passes the health probe takes its steps in the order
\* warmup, tracker start, monitor start, load, monitor stop, optional padding,
\* tracker stop, classification, compile, persist; the polling thread lives only
\* while the tracker is on, and not during the padding.
C7_StepOrder ==
    /\ (trace # <<>> /\ trace[1] = "health_ok") =>
         IsPrefix(trace, StepsUnpadded) \/ IsPrefix(trace, StepsPadded)
    /\ (pc = "returned" /\ ret = "record") => trace \in {StepsUnpadded, StepsPadded}
    /\ (thread \notin {"none", "dead"} \/ mon_running) => tracker_on
    /\ pc = "padding" => (tracker_on /\ ~mon_running /\ thread = "dead")

C7_Witness ==
    /\ pc = "returned" /\ ret = "record"
    /\ trace = StepsPadded
    /\ record.padding_seconds # NoneNum
    /\ record.container_metrics.sample_count >= 1

\* the requests issued so far, against the load size and the counters
C8_State ==
    /\ issued <= rt.load_size \/ pc \in {"idle", "health", "warmup", "tracker_start"}
    /\ LoadReturned => issued = rt.load_size
    /\ Len(results.response_times) = results.success
    /\ pc = "load" => results.success + results.errors = i

\* the loop of the load phase handles one make_request result
C8_Step ==
    (pc = "load" /\ i' = i + 1) =>
      IF result'.success
      THEN /\ results'.success = results.success + 1
           /\ results'.errors = results.errors
           /\ Len(results'.response_times) = Len(results.response_times) + 1
      ELSE /\ results'.errors = results.errors + 1
           /\ results'.success = results.success
           /\ results'.response_times = results.response_times

\* C8: every request of a load phase is issued once; a failed request (timeout,
\* transport exception, non-200) adds one to errors and nothing to the response
\* times, is not issued again, and the requests after it are still issued.
C8_NoRetry == []C8_State /\ [][C8_Step]_vars

C8_Witness ==
    /\ pc = "monitor_stop" /\ mode = "sequential"
    /\ rt.load_size = 2 /\ issued = 2
    /\ results.errors = 1 /\ results.success = 1
    /\ result.success

\* C9: run_test runs the load sequentially iff load_size <= 100; otherwise through
\* a pool of width min(100, floor(load_size/10)), which is at least 1; no more
\* requests are in flight than one (sequential) or the width (pool).
C9_Dispatch ==
    /\ mode = "sequential" =>
         /\ rt.load_size <= 100
         /\ running = 0 /\ issued - i = 0
    /\ mode = "concurrent" =>
         /\ rt.load_size > 100
         /\ max_workers >= 1 /\ max_workers <= 100
         /\ max_workers = 100 \/ (10 * max_workers <= rt.load_size
                                  /\ rt.load_size < 10 * max_workers + 10)
         /\ running <= max_workers
         /\ issued - i - DoneCount = running
    /\ spc = "build" =>
         \A n \in 1..MaxLoadSize :
           /\ UsesSequential(n) <=> (n <= 100)
           /\ n > 100 =>
                LET w == PoolWidth(n)
                IN  /\ w >= 1 /\ w <= 100
                    /\ 10 * w <= n
                    /\ w = 100 \/ n < 10 * w + 10

C9_Witness ==
    /\ mode = "concurrent"
    /\ rt.load_size = 110 /\ max_workers = 11
    /\ running = max_workers
    /\ queued > 0

TelemetryRead == CsvState(files, TestId(rt.framework_key, rt.endpoint_name, rt.load_size))

\* extract_energy_metadata has returned to the execution of run_test in progress
Extracted == pc \in {"compile", "save"} \/ (pc = "returned" /\ ret = "record")

\* C11: extract_energy_metadata returns, for a telemetry file that is missing, has
\* no rows or cannot be read, an error object whose measurement_reliability is
\* "unknown".
C11_ErrorObject ==
    (Extracted /\ TelemetryRead # "ok") =>
        /\ energy_metadata.error # NoneStr
        /\ energy_metadata.measurement_reliability = "unknown"

MetricsReturned == container_metrics # NoMetrics

\* C13 as stated: whenever a docker query was missing or failed during monitoring
\* (not found, non-zero exit status, timeout, any other exception), the metrics
\* returned by stop() contain an error field.
C13_EveryFailureRecorded ==
    (MetricsReturned /\ failed_queries # {}) => container_metrics.error # NoneStr

\* C13, amended: the metrics returned by stop() contain an error field exactly when
\* a docker query raised FileNotFoundError or an exception, other than the timeout,
\* whose message is not empty; a timed-out query or a non-zero exit status leaves
\* no error.  Whatever the
\* queries did, run_test returns a record that was persisted, carrying those
\* metrics, and the suite makes every call of its schedule.
C13_RaisedFailureRecorded ==
    /\ MetricsReturned =>
         /\ (container_metrics.error # NoneStr)
              <=> (failed_queries \cap {"notfound", "exception"} # {})
         /\ ("notfound" \in failed_queries) =>
              container_metrics.error = "Docker CLI not found"
    /\ (pc = "returned" /\ failed_queries # {}) =>
         /\ ret = "record" /\ saved = 1
         /\ record.container_metrics = container_metrics
         /\ \E f \in files : f.by = "save_results" /\ ~f.is_list /\ f.data = <<record>>
    /\ spc = "done" => Len(calls) = Len(configs) * suite_args.num_runs

C13_Witness ==
    /\ pc = "returned" /\ ret = "record" /\ saved = 1
    /\ failed_queries = {"timeout", "notfound"}
    /\ record.container_metrics.error = "Docker CLI not found"

WinnerReturned == fn_pc = "winner_done" /\ Len(an_in.groups) >= 1

\* the significance tags a statement may hold
Tags == {Txt("[SIG]"), Txt("[N.S.]")}

TagCount(statement) == Cardinality({j \in 1..Len(statement) : statement[j] \in Tags})

\* C15: the winner is a subject whose mean is extremal for the direction (no other
\* subject has a strictly lower mean for "lower", none a strictly higher one for
\* "higher"); a single subject is returned as winner with is_significant false and
\* a statement without [SIG] and without [N.S.].
C15_Extremal ==
    WinnerReturned =>
      LET g == an_in.groups
          Sum(j) == SeqSum(g[j].vals)
          N(j) == Len(g[j].vals)
      IN  /\ \E j \in 1..Len(g) :
                /\ g[j].key = an_out.winner
                /\ \A k \in 1..Len(g) :
                     IF an_in.direction = "lower"
                     THEN Sum(k) * N(j) >= Sum(j) * N(k)
                     ELSE Sum(k) * N(j) <= Sum(j) * N(k)
          /\ Len(g) = 1 =>
                /\ an_out.winner = g[1].key
                /\ ~an_out.is_significant
                /\ TagCount(an_out.statement) = 0

C15_Witness ==
    /\ WinnerReturned
    /\ Len(an_in.groups) = 3 /\ an_in.direction = "higher"
    /\ an_in.groups[1].vals = <<1, 3>>
    /\ an_in.groups[2].vals = <<1>>
    /\ an_in.groups[3].vals = <<3, 3>>
    /\ an_out.winner = an_in.groups[3].key

\* every subject of the table has at least two observations
AllObserved == \A j \in 1..Len(an_in.groups) : Len(an_in.groups[j].vals) >= 2

\* C16: with at least two subjects of at least two observations each and scipy
\* available, the statement starts with exactly one of [SIG] and [N.S.]: [SIG] iff
\* the p-value of the test between winner and runner-up is below 0.05, [N.S.]
\* otherwise, also when the p-value is NaN; is_significant always agrees with the tag.
C16_Tag ==
    /\ (WinnerReturned /\ Len(an_in.groups) >= 2 /\ AllObserved /\ an_in.has_scipy) =>
         /\ an_out.statement[1] \in Tags
         /\ TagCount(an_out.statement) = 1
         /\ (an_out.statement[1] = Txt("[SIG]"))
              <=> (an_in.ttest_p # NaN /\ an_in.ttest_p < ALPHA)
    /\ WinnerReturned =>
         (an_out.is_significant <=> (an_out.statement[1] = Txt("[SIG]")))

C16_Witness ==
    /\ WinnerReturned
    /\ Len(an_in.groups) = 2 /\ AllObserved /\ an_in.has_scipy
    /\ an_in.ttest_p = NaN
    /\ an_out.statement[1] = Txt("[N.S.]")
    /\ ~an_out.is_significant /\ an_out.p_value = NoneNum

\* the caveats a statement may end with
FullCaveat == <<Txt("[CAVEAT: all measurements below noise floor]")>>

PartialCaveat(unreliable_m, total_m) ==
    <<Txt("[CAVEAT:"), Num(unreliable_m), Txt("/"), Num(total_m),
      Txt("measurements unreliable]")>>

EndsWith(statement, tail) ==
    /\ Len(statement) >= Len(tail)
    /\ SubSeq(statement, Len(statement) - Len(tail) + 1, Len(statement)) = tail

HasCaveat(statement) ==
    \E j \in 1..Len(statement) :
        statement[j] \in {FullCaveat[1], Txt("[CAVEAT:")}

\* the caveat the reliability counts call for: the full one iff every counted
\* measurement is unreliable, the partial one otherwise, none without an
\* unreliable measurement
CaveatAsCounted(statement, counts) ==
    LET total_m == counts.reliable + counts.marginal + counts.unreliable + counts.unknown
    IN  IF counts.unreliable = 0 THEN ~HasCaveat(statement)
        ELSE IF counts.unreliable = total_m THEN EndsWith(statement, FullCaveat)
        ELSE EndsWith(statement, PartialCaveat(counts.unreliable, total_m))

PairwiseReturned == fn_pc = "pairwise_done" /\ an_in.has_scipy

\* the number of unordered pairs of subjects of the table
PairCount == (Len(an_in.groups) * (Len(an_in.groups) - 1)) \div 2

\* the two subjects of the r-th entry
EntryA(r) == CHOOSE g \in {an_in.groups[j] : j \in 1..Len(an_in.groups)} :
                 g.key = an_out.results[r].fw_a
EntryB(r) == CHOOSE g \in {an_in.groups[j] : j \in 1..Len(an_in.groups)} :
                 g.key = an_out.results[r].fw_b

\* the t-test of the r-th pair was run and gave numbers
EntryTested(r) == PairTested(EntryA(r), EntryB(r)) /\ an_in.ttest[r] # NaN

\* C18: for every pair tested by run_pairwise_tests the corrected p-value is
\* min(p_raw * k, 1.0), k being the number of unordered pairs of subjects, and the
\* pair is flagged significant iff that value is below 0.05; the entry stores both
\* p-values rounded to six places.  With k = 3 and p_raw = 0.02 the corrected value
\* is 0.06 and the pair is not significant.
C18_Bonferroni ==
    PairwiseReturned =>
      /\ Len(an_out.results) = PairCount
      /\ \A r \in 1..Len(an_out.results) :
           EntryTested(r) =>
             LET e  == an_out.results[r]
                 pr == an_in.ttest[r]
                 corrected == IF pr * PairCount < P_ONE THEN pr * PairCount
                              ELSE P_ONE
             IN  /\ e.num_comparisons = PairCount
                 /\ e.p_raw = RoundTo(pr, 1, ROUND6)
                 /\ e.p_corrected = RoundTo(corrected, 1, ROUND6)
                 /\ e.significant <=> (corrected < ALPHA)

C18_Witness ==
    /\ PairwiseReturned
    /\ PairCount = 3
    /\ \E r \in 1..3 :
         /\ EntryTested(r)
         /\ an_in.ttest[r] = 200000
         /\ an_out.results[r].p_corrected = 600000
         /\ ~an_out.results[r].significant

\* C19: Cohen's d of run_pairwise_tests is symmetric in its two groups: with the
\* observations of group A and group B exchanged the entry has the same d and the
\* same effect-size label; and d is never negative.
C19_Symmetric ==
    PairwiseReturned =>
      \A r \in 1..Len(an_out.results) :
        EntryTested(r) =>
          LET e == an_out.results[r]
              a == EntryA(r)
              b == EntryB(r)
              exchanged == PairEntry([key |-> a.key, vals |-> b.vals],
                                     [key |-> b.key, vals |-> a.vals],
                                     an_in.ttest[r], PairCount)
          IN  /\ exchanged.cohens_d = e.cohens_d
              /\ exchanged.effect_size = e.effect_size
              /\ e.cohens_d.sign >= 0
              /\ (e.cohens_d.sign = 0) <=> (e.cohens_d.sq_num = 0)

C19_Witness ==
    /\ PairwiseReturned
    /\ \E r \in 1..Len(an_out.results) :
         /\ EntryTested(r)
         /\ EntryA(r).vals = <<1, 1>> /\ EntryB(r).vals = <<1, 3>>
         /\ an_out.results[r].cohens_d = [sign |-> 1, sq_num |-> 32, sq_den |-> 32]
         /\ an_out.results[r].effect_size = "large"

\* run_anova has returned with scipy available for a degenerate table: fewer than
\* two groups, a group of fewer than two observations, or a NaN statistic
AnovaDegenerate ==
    /\ fn_pc = "anova_done" /\ an_in.has_scipy
    /\ ~AnovaRunsTest(an_in.groups, an_in.has_scipy) \/ an_in.anova_p = NaN

\* a dict that carries a significance flag equal to false and warning text
FlaggedFalse(d) ==
    /\ "significant" \in DOMAIN d /\ "warning" \in DOMAIN d
    /\ ~d.significant

\* C20 as stated: on degenerate input run_anova and run_pairwise_tests each return
\* a result that carries a significance flag equal to false and warning text.
C20_FlagFalse ==
    /\ AnovaDegenerate => FlaggedFalse(an_out.result)
    /\ PairwiseReturned =>
         \A r \in 1..Len(an_out.results) :
           ~EntryTested(r) => FlaggedFalse(an_out.results[r])

\* C20, amended: with scipy available, on degenerate input run_anova returns a
\* dict with significant false and warning text; run_pairwise_tests returns one
\* entry per unordered pair (none with fewer than two groups), and the entry of a
\* pair with a group of fewer than two observations or with a NaN test result
\* carries warning text and no significance flag.
C20_Degenerate ==
    /\ AnovaDegenerate => FlaggedFalse(an_out.result)
    /\ PairwiseReturned =>
         /\ Len(an_out.results) = PairCount
         /\ \A r \in 1..Len(an_out.results) :
              IF EntryTested(r)
              THEN /\ "significant" \in DOMAIN an_out.results[r]
                   /\ "warning" \notin DOMAIN an_out.results[r]
              ELSE /\ "warning" \in DOMAIN an_out.results[r]
                   /\ "significant" \notin DOMAIN an_out.results[r]

C20_Witness ==
    /\ PairwiseReturned
    /\ Len(an_out.results) = 3
    /\ \E r \in 1..3 : /\ "warning" \in DOMAIN an_out.results[r]
                        /\ an_out.results[r].warning = "t-test returned NaN"
    /\ \E r \in 1..3 : /\ "warning" \in DOMAIN an_out.results[r]
                        /\ an_out.results[r].warning = "Need >= 2 observations per group"

\* an operation of the statistics engine has returned without scipy
ReturnedWithoutBackend(fn) ==
    /\ fn_pc \in {"describe_done", "anova_done", "pairwise_done", "winner_done"}
    /\ an_out.fn = fn /\ ~an_in.has_scipy

\* without scipy calculate_statistics gives, for every metric of two results or
\* more, mean, std, stderr and both bounds of the interval, built with 2.0
DescriptiveFallback ==
    (ReturnedWithoutBackend("describe") /\ Len(an_in.results) >= 2) =>
      \A m \in Metrics :
        LET d == an_out.result.metrics[m]
        IN  /\ {"mean", "std_sq", "stderr_sq", "ci_low", "ci_high"} \subseteq DOMAIN d
            /\ d.n = Len(an_in.results)
            /\ d.ci_low.t_crit = 0 - T_CRIT_FALLBACK
            /\ d.ci_high.t_crit = T_CRIT_FALLBACK
            /\ d.ci_low.mean = d.mean /\ d.ci_high.mean = d.mean
            /\ d.ci_low.stderr_sq = d.stderr_sq /\ d.ci_high.stderr_sq = d.stderr_sq

\* C21 as stated: without scipy calculate_statistics keeps its intervals, with the
\* critical value 2.0, and run_anova, run_pairwise_tests and
\* determine_statistical_winner, given two subjects or more, each return a result
\* that carries an explicit warning.
C21_WarningEverywhere ==
    /\ DescriptiveFallback
    /\ ReturnedWithoutBackend("anova") => "warning" \in DOMAIN an_out.result
    /\ (ReturnedWithoutBackend("pairwise") /\ Len(an_in.groups) >= 2) =>
         /\ Len(an_out.results) >= 1
         /\ \A r \in 1..Len(an_out.results) : "warning" \in DOMAIN an_out.results[r]
    /\ (ReturnedWithoutBackend("winner") /\ Len(an_in.groups) >= 2) =>
         "warning" \in DOMAIN an_out

\* C21, amended: without scipy calculate_statistics keeps its intervals, with the
\* critical value 2.0; run_anova returns a dict that holds only the warning that
\* the test was skipped; run_pairwise_tests returns an empty list;
\* determine_statistical_winner returns the winner with is_significant false and
\* no tag, with the statement "not enough data for significance test" when there
\* are two subjects or more.
C21_Degrades ==
    /\ DescriptiveFallback
    /\ ReturnedWithoutBackend("anova") =>
         an_out.result = [warning |-> "scipy not installed; ANOVA skipped"]
    /\ ReturnedWithoutBackend("pairwise") => an_out.results = <<>>
    /\ (ReturnedWithoutBackend("winner") /\ Len(an_in.groups) >= 1) =>
         /\ ~an_out.is_significant
         /\ TagCount(an_out.statement) = 0
         /\ "warning" \notin DOMAIN an_out
         /\ Len(an_in.groups) >= 2 =>
              an_out.statement[Len(an_out.statement)]
                  = Txt("-- not enough data for significance test")

C21_Witness ==
    /\ ReturnedWithoutBackend("describe")
    /\ Len(an_in.results) = 2
    /\ an_in.results[1].emissions_g = 1 /\ an_in.results[2].emissions_g = 3
    /\ an_out.result.metrics["emissions_g"].stderr_sq = [num |-> 4, den |-> 4]
    /\ an_out.result.metrics["emissions_g"].ci_high.t_crit = T_CRIT_FALLBACK
    /\ an_out.result.metrics["emissions_g"].avg = 2 * AVG3_SCALE


\* ---- C22

\* a dict of measure_startup_time holds a time and no error, or no time and an error
TimedRecord(r) == r.startup_time_seconds # NoneNum /\ "error" \notin DOMAIN r
ErrorRecord(r) == r.startup_time_seconds = NoneNum /\ "error" \in DOMAIN r

\* run_startup_benchmark has one dict per finished call, in round-robin order
RoundRobinRecords ==
    LET n == Len(startup_args.frameworks)
    IN  /\ Len(startup_calls) = Len(startup_results)
                                + (IF startup_pc \in {"round", "save", "done"} THEN 0 ELSE 1)
        /\ \A k \in 1..Len(startup_results) :
             /\ TimedRecord(startup_results[k]) \/ ErrorRecord(startup_results[k])
             /\ startup_results[k].framework_key = startup_args.frameworks[((k - 1) % n) + 1]
             /\ startup_results[k].run_id = ((k - 1) \div n) + 1
             /\ startup_calls[k] = <<startup_results[k].framework_key,
                                     startup_results[k].run_id>>
        /\ startup_pc \in {"save", "done"}
             => Len(startup_results) = n * startup_args.num_runs

StartupReturned == startup_pc = "returned"

RunTestEntered == pc = "health"
RunTestReturned == pc = "returned" /\ ret \in {"None", "record"}
StopCalled == pc = "joining"
StopHasReturned == pc = "pad"

\* C23: every run_test execution returns, None or a record, and every stop() returns
\* from its join, also when the polling thread is blocked in a docker query.
C23_Terminates ==
    /\ RunTestEntered ~> RunTestReturned
    /\ StopCalled ~> StopHasReturned

\* stop() has returned because the join timed out on a thread blocked in its query
C23_Witness ==
    /\ StopHasReturned
    /\ thread = "blocked"
    /\ join_elapsed = JOIN_TIMEOUT


\* ---- C24

TrackerStopping == pc = "tracker_stop"
Compiled == pc \in {"save", "returned"} /\ ret # "None"
PadNeeded == rt.min_duration > 0 /\ actual_duration < rt.min_duration

\* C24: with min_duration m > 0 the tracker is stopped only when load + padding has
\* reached m; a load phase shorter than m is padded by exactly m minus its duration
\* and the record's total is at least m; otherwise nothing is padded and the record
\* has no padding_seconds.
C24_Padding ==
    /\ TrackerStopping =>
         /\ actual_duration + padding_seconds >= rt.min_duration
         /\ padding_seconds = IF PadNeeded THEN rt.min_duration - actual_duration ELSE 0
         /\ (Count("pad", trace) = 1) = PadNeeded
    /\ Compiled =>
         /\ total_tracked_duration = actual_duration + padding_seconds
         /\ total_tracked_duration >= rt.min_duration
         /\ record.total_tracked_duration_seconds >= rt.min_duration
         /\ IF PadNeeded
            THEN record.padding_seconds = RoundSeconds(rt.min_duration - actual_duration)
            ELSE record.padding_seconds = NoneNum /\ Count("pad", trace) = 0

\* a record of a 4 s load phase padded by 11 s to reach the 15 s asked for
C24_Witness ==
    /\ Compiled
    /\ rt.min_duration = 15000
    /\ actual_duration = 4000
    /\ record.padding_seconds = 11000
    /\ record.total_tracked_duration_seconds = 15000


\* ---- C25

CombinedFiles == {f \in files : f.by = "run_comparison_suite"}
IndividualFiles == {f \in files : f.by = "save_results"}

\* executions of the suite that ended at the health probe
AbortedExecutions == MaxProbeFailures - budget.probes

\* C25: when run_comparison_suite ends, the combined file holds exactly the records
\* that run_test wrote to individual files, one per execution that passed the
\* health probe, in the order of execution, and none for an aborted execution.
C25_CombinedIsPersisted ==
    spc = "done" =>
      /\ Cardinality(CombinedFiles) = 1
      /\ \A c \in CombinedFiles :
           /\ Len(c.data) = Cardinality(IndividualFiles)
           /\ Len(c.data) = Len(calls) - AbortedExecutions
           /\ \A f \in IndividualFiles : Count(f.data[1], c.data) = 1
           /\ \A k \in 1..Len(c.data) : \E f \in IndividualFiles : f.data[1] = c.data[k]
           /\ \A j, k \in 1..Len(c.data) :
                j < k => c.data[j].timestamp < c.data[k].timestamp

\* a suite of four executions, one of them aborted, has written its combined file
C25_Witness ==
    /\ spc = "done"
    /\ Len(calls) = 4
    /\ AbortedExecutions = 1
    /\ \E c \in CombinedFiles : Len(c.data) = 3


\* ---- C26

BothWritten == spc = "done" /\ startup_pc = "done"

\* C26: once a suite and a cold-start benchmark have written into the same result
\* directory, load_test_results returns as many records as run_test persisted
\* individually, each of them a record of run_test: the startup records are not
\* counted.
C26_OnlyRunRecords ==
    BothWritten =>
      LET loaded == LoadTestResults(files)
      IN  /\ Len(loaded) = Cardinality(IndividualFiles)
          /\ \A k \in 1..Len(loaded) : \E f \in IndividualFiles : f.data[1] = loaded[k]


\* ---- C27

ReportDone == fn_pc = "report_done"

\* the winner was tested against a runner-up and tagged [SIG]
WinnerTaggedSig == an_out.winner.is_significant /\ an_out.winner.statement[1] = Txt("[SIG]")

\* the entries of the pairwise table for winner and runner-up
WinnerPairEntries ==
    {r \in 1..Len(an_out.pairwise) :
        {an_out.pairwise[r].fw_a, an_out.pairwise[r].fw_b}
          = {an_out.winner.winner, an_out.winner.runner_up}}

PairFlaggedSignificant(r) ==
    /\ "significant" \in DOMAIN an_out.pairwise[r]
    /\ an_out.pairwise[r].significant

\* C27 as stated: for any number of subjects, a winner tagged [SIG] against its
\* runner-up has its pair flagged significant in the pairwise table.
C27_SigImpliesPair ==
    (ReportDone /\ WinnerTaggedSig) =>
        \E r \in WinnerPairEntries : PairFlaggedSignificant(r)

\* C27, amended: a winner tagged [SIG] has its pair flagged significant when the
\* table has a single pair (two subjects), and with more pairs exactly when the raw
\* p-value times the number of pairs is below alpha; a pair of winner and runner-up
\* that is flagged significant always comes with a [SIG] winner.
C27_ConsistentUpToCorrection ==
    ReportDone =>
      /\ (WinnerTaggedSig /\ Len(an_out.pairwise) = 1) =>
             \E r \in WinnerPairEntries : PairFlaggedSignificant(r)
      /\ WinnerTaggedSig =>
             /\ Cardinality(WinnerPairEntries) = 1
             /\ \A r \in WinnerPairEntries :
                  PairFlaggedSignificant(r)
                    = (an_in.ttest[r] * Len(an_out.pairwise) < ALPHA)
      /\ (an_out.winner.runner_up # NoneStr) =>
             \A r \in WinnerPairEntries : PairFlaggedSignificant(r) => WinnerTaggedSig

\* three subjects, the winner tagged [SIG] with p = 0.02, its pair not significant
\* after the correction by three
C27_Witness ==
    /\ ReportDone
    /\ Len(an_out.pairwise) = 3
    /\ WinnerTaggedSig
    /\ an_out.winner.p_value = 200000
    /\ \E r \in WinnerPairEntries :
         /\ "significant" \in DOMAIN an_out.pairwise[r]
         /\ ~an_out.pairwise[r].significant
         /\ an_out.pairwise[r].p_corrected = 600000


\* ---- C28

\* the record as an older format would hold it: the durations without the labels
WithoutLabels(r) ==
    [measurement_reliability        |-> NoneStr,
     energy_metadata_reliability    |-> NoneStr,
     total_tracked_duration_seconds |-> r.total_tracked_duration_seconds,
     duration_seconds               |-> r.duration_seconds]

\* C28: on a record of run_test whose telemetry was read, the measurement_reliability
\* tag is the classification of the stored total_tracked_duration_seconds, which is
\* what the duration fallback of _extract_reliability infers.
C28_TagMatchesStored ==
    (Compiled /\ record.energy_metadata.error = NoneStr) =>
        /\ record.measurement_reliability
             = ClassifyDuration(record.total_tracked_duration_seconds)
        /\ record.measurement_reliability = ExtractReliability(WithoutLabels(record))


\* ---- C29

\* the telemetry file of the k-th execution of the suite: csv_path (416, 461)
TelemetryPath(k) ==
    CsvName(TestId(calls[k].config.framework, calls[k].config.endpoint_name,
                   calls[k].config.load))

\* the rows extract_energy_metadata has just read (307-309), each marked with the
\* execution whose tracker wrote it
RowsRead ==
    UNION {{f.rows[k] : k \in 1..Len(f.rows)} :
             f \in CsvFiles(files, TestId(rt.framework_key, rt.endpoint_name,
                                          rt.load_size))}

\* C29: two executions of run_test never have the same telemetry file or the same
\* result file, and the rows an execution reads its energy metadata from are rows
\* its own tracker wrote.
C29_NoSharedArtifact ==
    /\ \A a, b \in 1..Len(calls) : (a # b) => (TelemetryPath(a) # TelemetryPath(b))
    /\ (pc = "compile") => (RowsRead \subseteq {Len(calls)})
    /\ (spc = "done") => (Cardinality(IndividualFiles) = Len(all_results))


\* ---- C30

\* C30: every request the workers attempted is counted in total_requests, so
\* failed_requests never exceeds total_requests and the compiled
\* successful_requests is never negative.
C30_EveryAttemptCounted ==
    /\ (uct_pc \in {"returned", "compiled"} /\ perf_data # EmptyDict) =>
         /\ perf_data.total_requests = Attempted
         /\ perf_data.failed_requests <= perf_data.total_requests
    /\ (uct_pc = "compiled") => performance.successful_requests >= 0

=============================================================================
